---- MODULE Spec2Model ----
(***************************************************************************)
(* Model of the query-shape analysis functions of                         *)
(* QuerySetter/mongodb_functions.py.                                       *)
(*                                                                         *)
(* The functions are pure transformations of JSON-like documents.  A      *)
(* Python value is modelled as a record [t |-> tag, v |-> payload]:        *)
(*   "doc"  : v is the sequence of <<key, value>> pairs in insertion order *)
(*            (a Python dict keeps insertion order; keys are unique),      *)
(*   "list" : v is the sequence of the elements,                           *)
(*   "str"  : v is the string, "int" : v is the integer,                   *)
(*   "bool" : v is the boolean, "null" : None.                             *)
(* The state is the last call made (function, arguments, result) and the   *)
(* call before it, so that properties relating two calls can be stated.    *)
(***************************************************************************)
EXTENDS Integers, Sequences, FiniteSets, TLC

VARIABLES call, prev

vars == <<call, prev>>

----------------------------------------------------------------------------
(* Python values *)

Doc(kvs) == [t |-> "doc", v |-> kvs]

List(xs) == [t |-> "list", v |-> xs]

Str(s) == [t |-> "str", v |-> s]

Num(n) == [t |-> "int", v |-> n]

Bool(b) == [t |-> "bool", v |-> b]

None == [t |-> "null", v |-> 0]

IsDoc(x) == x.t = "doc"

IsList(x) == x.t = "list"

IsStr(x) == x.t = "str"

\* bool(x): the truth value Python gives a value in `if x` / `x and ...` / `x or ...`
Truthy(x) ==
    CASE x.t = "doc" -> Len(x.v) > 0
      [] x.t = "list" -> Len(x.v) > 0
      [] x.t = "str" -> Len(x.v) > 0
      [] x.t = "int" -> x.v # 0
      [] x.t = "bool" -> x.v
      [] OTHER -> FALSE

\* dict.keys() in insertion order
Keys(d) == [i \in 1..Len(d.v) |-> d.v[i][1]]

\* `k in d` for a dict d
HasKey(d, k) == \E i \in 1..Len(d.v) : d.v[i][1] = k

\* d[k] for a key that is present
Get(d, k) == d.v[CHOOSE i \in 1..Len(d.v) : d.v[i][1] = k][2]

\* d.get(k, dflt)
GetOr(d, k, dflt) == IF HasKey(d, k) THEN Get(d, k) ELSE dflt

\* d[k] = val : replaces the value in place when k is present, else appends
Put(d, k, val) ==
    IF HasKey(d, k)
    THEN Doc([i \in 1..Len(d.v) |-> IF d.v[i][1] = k THEN <<k, val>> ELSE d.v[i]])
    ELSE Doc(Append(d.v, <<k, val>>))

\* s.startswith(p)
StartsWith(s, p) == Len(s) >= Len(p) /\ SubSeq(s, 1, Len(p)) = p

\* `x in xs` for a list of strings
InSeq(x, xs) == \E i \in 1..Len(xs) : xs[i] = x

RECURSIVE Flatten(_)
\* concatenation of a sequence of sequences
Flatten(ss) == IF Len(ss) = 0 THEN <<>> ELSE Head(ss) \o Flatten(Tail(ss))

\* all sequences over S of length at most n
SeqsUpTo(S, n) == UNION {[1..k -> S] : k \in 0..n}

----------------------------------------------------------------------------
(* get_stages_r / get_plan_stages *)

(* get_stages_r mutates the list arr it is given; the model returns the    *)
(* list after the call.  The function is wrapped by safe_execute, so an    *)
(* exception raised at one level is swallowed at that level and leaves arr *)
(* as it was when the exception was raised.  For a node that is not a dict *)
(* every path either finds no key or raises on the subscript that follows  *)
(* the membership test, before any insert: arr is unchanged.               *)
RECURSIVE get_stages_r(_, _)
RECURSIVE VisitInputStagesMutant(_, _)
RECURSIVE VisitInputStages(_, _)

\* as VisitInputStages, but each child's stages are placed behind the earlier ones
VisitInputStagesMutant(es, arr) ==
    IF Len(es) = 0 THEN arr
    ELSE get_stages_r(Head(es), <<>>) \o VisitInputStagesMutant(Tail(es), arr)

\* for e in o['inputStages']: get_stages_r(e, arr)
VisitInputStages(es, arr) ==
    IF Len(es) = 0 THEN arr
    ELSE VisitInputStages(Tail(es), get_stages_r(Head(es), arr))

\* arr.insert(0, o['stage']) appends at the back instead
InsertStageMutant(stage, arr) == Append(arr, stage)

\* arr.insert(0, o['stage'])
InsertStage(stage, arr) == <<stage>> \o arr

get_stages_r(o, arr) ==
    IF ~IsDoc(o) THEN arr
    ELSE IF Truthy(o) /\ HasKey(o, "queryPlanner") THEN
        get_stages_r(Get(o, "queryPlanner"), arr)
    ELSE IF Truthy(o) /\ HasKey(o, "winningPlan") THEN
        get_stages_r(Get(o, "winningPlan"), arr)
    ELSE IF Truthy(o) /\ HasKey(o, "queryPlan") THEN
        get_stages_r(Get(o, "queryPlan"), arr)
    ELSE IF Truthy(o) /\ HasKey(o, "stage") THEN
        LET a1 == InsertStage(Get(o, "stage"), arr) IN
        IF HasKey(o, "inputStage") THEN
            get_stages_r(Get(o, "inputStage"), a1)
        ELSE IF HasKey(o, "inputStages") /\ IsList(Get(o, "inputStages")) THEN
            VisitInputStages(Get(o, "inputStages").v, a1)
        ELSE a1
    ELSE IF /\ Truthy(o) /\ HasKey(o, "stages")
            /\ IsList(Get(o, "stages")) /\ Truthy(Get(o, "stages"))
            /\ IsDoc(Get(o, "stages").v[1])
            /\ HasKey(Get(o, "stages").v[1], "$cursor") THEN
        get_stages_r(Get(Get(o, "stages").v[1], "$cursor"), arr)
    ELSE arr

\* as get_plan_stages, but a node that has `stage` records it whatever wrapper
\* key it has besides
get_plan_stagesStageFirst(plan) ==
    IF IsDoc(plan) /\ HasKey(plan, "stage")
    THEN List(get_stages_r(
             Doc(SelectSeq(plan.v, LAMBDA e :
                     e[1] \notin {"queryPlanner", "winningPlan", "queryPlan"})),
             <<>>))
    ELSE List(get_stages_r(plan, <<>>))

\* as get_plan_stages, but an empty arr is returned as None (`return arr or None`)
get_plan_stagesMutant(plan) ==
    IF get_stages_r(plan, <<>>) = <<>> THEN None ELSE List(get_stages_r(plan, <<>>))

\* arr = []; get_stages_r(plan, arr); return arr
get_plan_stages(plan) == List(get_stages_r(plan, <<>>))

----------------------------------------------------------------------------
(* Explain plans given to get_plan_stages *)

MaxChain == 3

MaxKids == 2

StageNames == {"COLLSCAN", "IXSCAN", "FETCH"}

StageNode(s) == Doc(<<<<"stage", Str(s)>>>>)

RECURSIVE ChainOf(_)
\* the chain S1 -> S2 -> ... -> Sn linked by inputStage, S1 = names[1] outermost
ChainOf(names) ==
    IF Len(names) = 1 THEN StageNode(names[1])
    ELSE Doc(<<<<"stage", Str(names[1])>>, <<"inputStage", ChainOf(Tail(names))>>>>)

ChainNames == SeqsUpTo(StageNames, MaxChain) \ {<<>>}

Chains == {ChainOf(ns) : ns \in ChainNames}

FanIn(s, kids) == Doc(<<<<"stage", Str(s)>>, <<"inputStages", List(kids)>>>>)

\* a stage node that carries both inputStage and inputStages
BothKids(s, c, kids) ==
    Doc(<<<<"stage", Str(s)>>, <<"inputStages", List(kids)>>, <<"inputStage", c>>>>)

\* children of a fan-in node: leaves, short chains, a nested fan-in, an empty
\* document, a wrapped chain
KidPool ==
    {StageNode("IXSCAN"), StageNode("COLLSCAN"),
     ChainOf(<<"FETCH", "IXSCAN">>),
     FanIn("OR", <<StageNode("IXSCAN"), ChainOf(<<"FETCH", "COLLSCAN">>)>>),
     Doc(<<>>),
     Doc(<<<<"winningPlan", ChainOf(<<"SORT", "COLLSCAN">>)>>>>)}

FanIns == {FanIn(s, kids) : s \in {"OR", "SORT_MERGE"}, kids \in SeqsUpTo(KidPool, MaxKids)}

BothKidsNodes ==
    {BothKids("OR", c, kids) : c \in {StageNode("FETCH")},
                               kids \in SeqsUpTo({StageNode("IXSCAN"), StageNode("COLLSCAN")}, MaxKids)}

Wrap(k, p) == Doc(<<<<k, p>>>>)

WrapKeys == {"queryPlanner", "winningPlan", "queryPlan"}

\* plans wrapped in one or two of the indirection layers
Wrapped(ps) ==
    {Wrap(k, p) : k \in WrapKeys, p \in ps}
    \cup {Wrap("queryPlanner", Wrap("winningPlan", p)) : p \in ps}
    \cup {Wrap("queryPlanner", Wrap("winningPlan", Wrap("queryPlan", p))) : p \in ps}

Plans == Chains \cup FanIns \cup BothKidsNodes \cup Wrapped(Chains) \cup Wrapped(FanIns)

\* the explain of an aggregate: the plan is under stages[0].$cursor
CursorPlans ==
    {Doc(<<<<"stages", List(<<Doc(<<<<"$cursor", p>>>>)>> \o rest)>>>>) :
        p \in Wrapped(Chains),
        rest \in {<<>>, <<Doc(<<<<"$group", Doc(<<>>)>>>>)>>}}

\* plans in which get_stages_r finds no stage: no plan, documents without any of
\* the keys it looks for, a `stage` under a key it does not look for, a `stages`
\* array that is empty or whose first element has no `$cursor`
OtherPlans ==
    {None, Doc(<<>>), Doc(<<<<"ok", Num(1)>>>>),
     Doc(<<<<"executionStats", StageNode("COLLSCAN")>>>>),
     Doc(<<<<"inputStage", StageNode("IXSCAN")>>>>),
     Doc(<<<<"inputStages", List(<<StageNode("IXSCAN")>>)>>, <<"ok", Num(1)>>>>),
     Doc(<<<<"stages", List(<<>>)>>>>),
     Doc(<<<<"stages", List(<<Doc(<<<<"$match", Doc(<<>>)>>>>)>>)>>>>),
     Doc(<<<<"stages", List(<<Doc(<<<<"$match", Doc(<<>>)>>>>),
                             Doc(<<<<"$cursor", StageNode("COLLSCAN")>>>>)>>)>>>>),
     Doc(<<<<"stages", Doc(<<<<"$cursor", StageNode("COLLSCAN")>>>>)>>>>),
     Doc(<<<<"Stage", Str("COLLSCAN")>>>>)}

----------------------------------------------------------------------------
(* simplify_filter / extract_fields / suggest_index *)

\* the outcome of a call that raised: safe_execute logs it and returns None
Raised == [t |-> "raise", v |-> 0]

\* the wrapper of safe_execute: `except Exception: return None`
safe_execute(r) == IF r = Raised THEN None ELSE r

\* the characters of a string, as iterating over a str yields them
CharsOf(s) == [i \in 1..Len(s) |-> Str(SubSeq(s, i, i))]

\* the items `for item in x` yields: a list's elements, a dict's keys, a str's
\* characters; any other value is not iterable (TypeError)
IterItems(x) ==
    CASE x.t = "list" -> x.v
      [] x.t = "doc" -> [i \in 1..Len(x.v) |-> Str(x.v[i][1])]
      [] x.t = "str" -> CharsOf(x.v)
      [] OTHER -> <<>>

Iterable(x) == x.t \in {"list", "doc", "str"}

\* any(k.startswith('$') for k in value.keys())
HasOperatorKey(value) == \E i \in 1..Len(value.v) : StartsWith(value.v[i][1], "$")

\* next(k for k in value.keys() if k.startswith('$')) takes the last such key instead
FirstOperatorKeyMutant(value) ==
    value.v[CHOOSE i \in 1..Len(value.v) :
                /\ StartsWith(value.v[i][1], "$")
                /\ \A j \in (i + 1)..Len(value.v) : ~StartsWith(value.v[j][1], "$")][1]

\* next(k for k in value.keys() if k.startswith('$'))
FirstOperatorKey(value) ==
    value.v[CHOOSE i \in 1..Len(value.v) :
                /\ StartsWith(value.v[i][1], "$")
                /\ \A j \in 1..(i - 1) : ~StartsWith(value.v[j][1], "$")][1]

RECURSIVE simplify_filter(_)
simplify_filter(filter_doc) ==
    IF IsDoc(filter_doc) THEN
        LET kv == filter_doc.v
            Entry(i) ==
                LET key == kv[i][1]
                    value == kv[i][2]
                IN  IF key = "$and" \/ key = "$or" THEN
                        IF Iterable(value)
                        THEN LET items == IterItems(value)
                             IN  List([j \in 1..Len(items) |-> simplify_filter(items[j])])
                        ELSE Raised
                    ELSE IF IsDoc(value) /\ HasOperatorKey(value) THEN
                        Str(FirstOperatorKey(value))
                    ELSE IF IsStr(value) /\ StartsWith(value.v, "?") THEN
                        Str("$eq")
                    ELSE simplify_filter(value)
            simplified == [i \in 1..Len(kv) |-> <<kv[i][1], Entry(i)>>]
        IN  \* iterating a $and / $or value that is not iterable raises, and the
            \* wrapper of this call returns None
            IF \E i \in 1..Len(kv) : simplified[i][2] = Raised
            THEN None
            ELSE Doc(simplified)
    ELSE IF IsList(filter_doc) THEN
        List([i \in 1..Len(filter_doc.v) |-> simplify_filter(filter_doc.v[i])])
    ELSE filter_doc

RECURSIVE extract_fields(_)
\* the (field, tag) pairs, as a sequence of <<field, tag>>
extract_fields(doc) ==
    IF IsDoc(doc) THEN
        Flatten([i \in 1..Len(doc.v) |->
            (IF doc.v[i][1] \notin {"$and", "$or"} THEN <<doc.v[i]>> ELSE <<>>)
            \o extract_fields(doc.v[i][2])])
    ELSE IF IsList(doc) THEN
        Flatten([i \in 1..Len(doc.v) |-> extract_fields(doc.v[i])])
    ELSE <<>>

RECURSIVE ClassifyFieldsMutant(_, _)
RECURSIVE ClassifyFields(_, _)

\* as ClassifyFields, but a later `$eq` pair moves a field seen as range to the
\* equality group
ClassifyFieldsMutant(pairs, acc) ==
    IF Len(pairs) = 0 THEN acc
    ELSE
        LET field == Head(pairs)[1]
            value == Head(pairs)[2]
        IN  IF value = Str("$eq") /\ ~InSeq(field, acc.equality_fields) THEN
                ClassifyFieldsMutant(Tail(pairs),
                    [equality_fields |-> Append(acc.equality_fields, field),
                     range_fields |-> SelectSeq(acc.range_fields, LAMBDA f : f # field)])
            ELSE IF ~InSeq(field, acc.equality_fields) /\ ~InSeq(field, acc.range_fields) THEN
                ClassifyFieldsMutant(Tail(pairs),
                    [acc EXCEPT !.range_fields = Append(@, field)])
            ELSE ClassifyFieldsMutant(Tail(pairs), acc)

\* the loop of suggest_index over extract_fields(simplified_filter)
ClassifyFields(pairs, acc) ==
    IF Len(pairs) = 0 THEN acc
    ELSE
        LET field == Head(pairs)[1]
            value == Head(pairs)[2]
        IN  IF ~InSeq(field, acc.equality_fields) /\ ~InSeq(field, acc.range_fields) THEN
                IF value = Str("$eq")
                THEN ClassifyFields(Tail(pairs),
                         [acc EXCEPT !.equality_fields = Append(@, field)])
                ELSE ClassifyFields(Tail(pairs),
                         [acc EXCEPT !.range_fields = Append(@, field)])
            ELSE ClassifyFields(Tail(pairs), acc)

\* equality_fields and range_fields after the loop
FieldGroups(filter_doc) ==
    ClassifyFields(extract_fields(simplify_filter(filter_doc)),
                   [equality_fields |-> <<>>, range_fields |-> <<>>])

\* the fields are combined as equality, range, sort
CombineFieldsMutant(equality_fields, sort_fields, range_fields) ==
    equality_fields \o range_fields \o sort_fields

\* equality_fields + sort_fields + range_fields
CombineFields(equality_fields, sort_fields, range_fields) ==
    equality_fields \o sort_fields \o range_fields

RECURSIVE IndexOf(_, _)
\* suggested_index = {}; for field in fields: suggested_index[field] = 1
IndexOf(fields, acc) ==
    IF Len(fields) = 0 THEN acc
    ELSE IndexOf(Tail(fields), Put(acc, Head(fields), Num(1)))

suggest_index(filter_doc, sort_doc) ==
    LET g == FieldGroups(filter_doc)
        sort_keys == IF Truthy(sort_doc) THEN Keys(sort_doc) ELSE <<>>
        sort_fields ==
            SelectSeq(sort_keys, LAMBDA f : /\ ~InSeq(f, g.equality_fields)
                                            /\ ~InSeq(f, g.range_fields))
    IN  \* list(sort_doc.keys()) raises for a truthy value that is not a dict
        IF Truthy(sort_doc) /\ ~IsDoc(sort_doc) THEN None
        ELSE IndexOf(CombineFields(g.equality_fields, sort_fields, g.range_fields),
                     Doc(<<>>))

----------------------------------------------------------------------------
(* Filters and sorts given to suggest_index *)

MaxFields == 2

MaxBranches == 2

Fields == {"a", "b", "c"}

Gt == Doc(<<<<"$gt", Str("?number")>>>>)

GtLt == Doc(<<<<"$gt", Str("?number")>>, <<"$lt", Str("?number")>>>>)

\* what a filter holds for a field: an equality probe, range operators, an
\* embedded document, a literal
FieldValues ==
    {Str("?number"), Str("?string"), Gt, GtLt,
     Doc(<<<<"d", Str("?string")>>>>), Num(1)}

\* the sequences of distinct elements of S, of length at most n
DistinctSeqs(S, n) ==
    {q \in SeqsUpTo(S, n) : \A i, j \in 1..Len(q) : i # j => q[i] # q[j]}

FlatFilters ==
    UNION {{Doc([i \in 1..Len(fs) |-> <<fs[i], vals[i]>>]) :
               vals \in [1..Len(fs) -> FieldValues]} :
           fs \in DistinctSeqs(Fields, MaxFields)}

\* the branches of a $and / $or
BranchFilters ==
    {Doc(<<<<f, val>>>>) : f \in {"a", "b"}, val \in {Str("?number"), Gt}}
    \cup {Doc(<<<<"$or", List(<<Doc(<<<<"a", Str("?string")>>>>),
                               Doc(<<<<"c", Gt>>>>)>>)>>>>)}

BranchLists == SeqsUpTo(BranchFilters, MaxBranches) \ {<<>>}

LogicalFilters ==
    {Doc(<<<<op, List(bs)>>>>) : op \in {"$and", "$or", "$nor"}, bs \in BranchLists}
    \cup {Doc(<<<<"c", val>>, <<"$and", List(bs)>>>>) :
             val \in {Str("?number"), Gt}, bs \in BranchLists}

Filters == FlatFilters \cup LogicalFilters

Sorts ==
    {None, Doc(<<>>), Doc(<<<<"c", Num(1)>>>>), Doc(<<<<"a", Num(1)>>>>),
     Doc(<<<<"e", Num(-1)>>, <<"b", Num(1)>>>>)}

----------------------------------------------------------------------------
(* create_representative_query *)

DateLiteral == Doc(<<<<"$date", Str("2024-01-01T00:00:00.000Z")>>>>)

OidLiteral == Doc(<<<<"$oid", Str("000000000000000000000000")>>>>)

ObjectLiteral == Doc(<<<<"a", Num(1)>>>>)

BinaryLiteral ==
    Doc(<<<<"$binary", Doc(<<<<"base64", Str("YQ==")>>, <<"subType", Str("00")>>>>)>>>>)

TimestampLiteral ==
    Doc(<<<<"$timestamp", Doc(<<<<"t", Num(1677749825)>>, <<"i", Num(20)>>>>)>>>>)

MinKeyLiteral == Doc(<<<<"$minKey", Num(1)>>>>)

MaxKeyLiteral == Doc(<<<<"$maxKey", Num(1)>>>>)

\* as RepresentativeValue, but `?array<...>` tokens are matched by prefix
RepresentativeValueMutant(value) ==
    CASE value = "?number" -> Num(1)
      [] value = "?string" -> Str("a")
      [] value = "?date" -> DateLiteral
      [] value = "?objectId" -> OidLiteral
      [] value = "?bool" -> Bool(TRUE)
      [] value = "?null" -> None
      [] value = "?object" -> ObjectLiteral
      [] value = "?binData" -> BinaryLiteral
      [] value = "?timestamp" -> TimestampLiteral
      [] value = "?minKey" -> MinKeyLiteral
      [] value = "?maxKey" -> MaxKeyLiteral
      [] value = "?array<?number>" -> List(<<Num(1)>>)
      [] value = "?array<?string>" -> List(<<Str("a")>>)
      [] value = "?array<?date>" -> List(<<DateLiteral>>)
      [] value = "?array<?objectId>" -> List(<<OidLiteral>>)
      [] value = "?array<?bool>" -> List(<<Bool(TRUE)>>)
      [] value = "?array<?null>" -> List(<<None>>)
      [] value = "?array<?object>" -> List(<<ObjectLiteral>>)
      [] value = "?array<?binData>" -> List(<<BinaryLiteral>>)
      [] value = "?array<?timestamp>" -> List(<<TimestampLiteral>>)
      [] value = "?array<?minKey>" -> List(<<MinKeyLiteral>>)
      [] value = "?array<?maxKey>" -> List(<<MaxKeyLiteral>>)
      [] value = "?array<?array>" -> List(<<List(<<Str("a")>>)>>)
      [] StartsWith(value, "?array<") -> List(<<Str("a"), Num(1)>>)
      [] OTHER -> Str(value)

\* as RepresentativeValue, but the representative of ?object holds a placeholder
RepresentativeValueNested(value) ==
    CASE value = "?number" -> Num(1)
      [] value = "?string" -> Str("a")
      [] value = "?date" -> DateLiteral
      [] value = "?objectId" -> OidLiteral
      [] value = "?bool" -> Bool(TRUE)
      [] value = "?null" -> None
      [] value = "?object" -> Doc(<<<<"a", Str("?number")>>>>)
      [] value = "?binData" -> BinaryLiteral
      [] value = "?timestamp" -> TimestampLiteral
      [] value = "?minKey" -> MinKeyLiteral
      [] value = "?maxKey" -> MaxKeyLiteral
      [] value = "?array<>" -> List(<<Str("a"), Num(1)>>)
      [] value = "?array<?number>" -> List(<<Num(1)>>)
      [] value = "?array<?string>" -> List(<<Str("a")>>)
      [] value = "?array<?date>" -> List(<<DateLiteral>>)
      [] value = "?array<?objectId>" -> List(<<OidLiteral>>)
      [] value = "?array<?bool>" -> List(<<Bool(TRUE)>>)
      [] value = "?array<?null>" -> List(<<None>>)
      [] value = "?array<?object>" -> List(<<ObjectLiteral>>)
      [] value = "?array<?binData>" -> List(<<BinaryLiteral>>)
      [] value = "?array<?timestamp>" -> List(<<TimestampLiteral>>)
      [] value = "?array<?minKey>" -> List(<<MinKeyLiteral>>)
      [] value = "?array<?maxKey>" -> List(<<MaxKeyLiteral>>)
      [] value = "?array<?array>" -> List(<<List(<<Str("a")>>)>>)
      [] OTHER -> Str(value)

\* the if/elif chain over a string value that starts with `?`
RepresentativeValue(value) ==
    CASE value = "?number" -> Num(1)
      [] value = "?string" -> Str("a")
      [] value = "?date" -> DateLiteral
      [] value = "?objectId" -> OidLiteral
      [] value = "?bool" -> Bool(TRUE)
      [] value = "?null" -> None
      [] value = "?object" -> ObjectLiteral
      [] value = "?binData" -> BinaryLiteral
      [] value = "?timestamp" -> TimestampLiteral
      [] value = "?minKey" -> MinKeyLiteral
      [] value = "?maxKey" -> MaxKeyLiteral
      [] value = "?array<>" -> List(<<Str("a"), Num(1)>>)
      [] value = "?array<?number>" -> List(<<Num(1)>>)
      [] value = "?array<?string>" -> List(<<Str("a")>>)
      [] value = "?array<?date>" -> List(<<DateLiteral>>)
      [] value = "?array<?objectId>" -> List(<<OidLiteral>>)
      [] value = "?array<?bool>" -> List(<<Bool(TRUE)>>)
      [] value = "?array<?null>" -> List(<<None>>)
      [] value = "?array<?object>" -> List(<<ObjectLiteral>>)
      [] value = "?array<?binData>" -> List(<<BinaryLiteral>>)
      [] value = "?array<?timestamp>" -> List(<<TimestampLiteral>>)
      [] value = "?array<?minKey>" -> List(<<MinKeyLiteral>>)
      [] value = "?array<?maxKey>" -> List(<<MaxKeyLiteral>>)
      [] value = "?array<?array>" -> List(<<List(<<Str("a")>>)>>)
      [] OTHER -> Str(value)  \* Keep other placeholders as is for now

RECURSIVE create_representative_query(_)
create_representative_query(query_doc) ==
    IF IsDoc(query_doc) THEN
        Doc([i \in 1..Len(query_doc.v) |->
            LET key == query_doc.v[i][1]
                value == query_doc.v[i][2]
            IN  IF IsStr(value) /\ StartsWith(value.v, "?") THEN
                    <<key, RepresentativeValue(value.v)>>
                ELSE IF IsDoc(value) THEN
                    <<key, create_representative_query(value)>>
                ELSE IF IsList(value) THEN
                    <<key, List([j \in 1..Len(value.v) |->
                                    create_representative_query(value.v[j])])>>
                ELSE <<key, value>>])
    ELSE IF IsList(query_doc) THEN
        List([i \in 1..Len(query_doc.v) |-> create_representative_query(query_doc.v[i])])
    ELSE query_doc

----------------------------------------------------------------------------
(* Query shapes given to create_representative_query *)

MaxListLen == 2

MaxNesting == 2

\* the type names T of the placeholders ?T and ?array<?T>
ScalarTypes ==
    {"number", "string", "date", "objectId", "bool", "null", "object", "binData",
     "timestamp", "minKey", "maxKey"}

\* the placeholder grammar: ?T, ?array<> and ?array<?T> for each scalar T
GrammarTokens ==
    {"?" \o ty : ty \in ScalarTypes}
    \cup {"?array<>"}
    \cup {"?array<?" \o ty \o ">" : ty \in ScalarTypes}

\* strings that start with `?` and are outside the grammar
OtherTokens == {"?array<?array>", "?array<?regex>", "?regex", "?", "?Number"}

\* values that are no placeholders
PlainScalars == {Str("x"), Str("a?number"), Num(5), Bool(FALSE), None}

ShapeLeaves == {Str(tok) : tok \in GrammarTokens \cup OtherTokens} \cup PlainScalars

\* the elements of the sequences of a shape
ListElems ==
    {Str("?number"), Str("?string"), Str("?array<?array>"), Num(5),
     Doc(<<<<"a", Str("?date")>>>>)}

ShapeLists == {List(xs) : xs \in SeqsUpTo(ListElems, MaxListLen)}

\* documents of one field, and of two fields in either order
ShapeDocs ==
    {Doc(<<>>)}
    \cup {Doc(<<<<"a", x>>>>) : x \in ShapeLeaves \cup ShapeLists}
    \cup {Doc(<<<<k1, x>>, <<k2, y>>>>) :
             k1 \in {"a"}, k2 \in {"b"}, x \in ShapeLeaves,
             y \in {Str("?string"), Str("?regex"), Num(5)}}
    \cup {Doc(<<<<"b", Str("?bool")>>, <<"a", Str("?number")>>>>)}

RECURSIVE Nested(_, _)
\* the values of S, each also nested up to n levels deep in a document field or
\* in a sequence
Nested(S, n) ==
    IF n = 0 THEN S
    ELSE LET inner == Nested(S, n - 1)
         IN  S \cup {Doc(<<<<"n", x>>>>) : x \in inner} \cup {List(<<x>>) : x \in inner}

\* a find filter is a document, an aggregate pipeline a sequence
QueryDocs == Nested(ShapeDocs \cup ShapeLists, MaxNesting)

----------------------------------------------------------------------------
(* hash_query_shape *)

\* the printable ASCII characters (but the grave accent) in code-point order:
\* Python compares strings by code point
Alphabet ==
    " !\"#$%&'()*+,-./0123456789:;<=>?@ABCDEFGHIJKLMNOPQRSTUVWXYZ[\\]^_abcdefghijklmnopqrstuvwxyz{|}~"

\* the rank of a character in code-point order
CharCode(c) == CHOOSE i \in 1..Len(Alphabet) : SubSeq(Alphabet, i, i) = c

RECURSIVE StrLess(_, _)
\* a < b for two strings
StrLess(a, b) ==
    IF Len(b) = 0 THEN FALSE
    ELSE IF Len(a) = 0 THEN TRUE
    ELSE LET ca == CharCode(SubSeq(a, 1, 1))
             cb == CharCode(SubSeq(b, 1, 1))
         IN  IF ca # cb THEN ca < cb
             ELSE StrLess(SubSeq(a, 2, Len(a)), SubSeq(b, 2, Len(b)))

\* sorted(element.items()), which json.dumps(..., sort_keys=True) keeps
SortedItems(element) == SortSeq(element.v, LAMBDA p, q : StrLess(p[1], q[1]))

RECURSIVE JsonEscape(_)
\* the body of the JSON string literal of s: every `"` and `\` gets a backslash
\* (the characters are mapped one by one; the string is split in halves to keep
\* the recursion shallow)
JsonEscape(s) ==
    IF Len(s) = 0 THEN ""
    ELSE IF Len(s) = 1 THEN (IF s = "\"" \/ s = "\\" THEN "\\" \o s ELSE s)
    ELSE LET h == Len(s) \div 2
         IN  JsonEscape(SubSeq(s, 1, h)) \o JsonEscape(SubSeq(s, h + 1, Len(s)))

\* json.dumps(s) for a string s
JsonString(s) == "\"" \o JsonEscape(s) \o "\""

RECURSIVE JoinComma(_)
\* ", ".join(parts)
JoinComma(parts) ==
    IF Len(parts) = 0 THEN ""
    ELSE IF Len(parts) = 1 THEN parts[1]
    ELSE parts[1] \o ", " \o JoinComma(Tail(parts))

\* json.dumps(d, sort_keys=True) for a dict d of strings, given as sorted items
JsonDumpsDict(items) ==
    "{" \o JoinComma([i \in 1..Len(items) |->
                         JsonString(items[i][1]) \o ": " \o JsonString(items[i][2])])
        \o "}"

\* json.dumps(l) for a list l of strings
JsonDumpsList(strs) == "[" \o JoinComma([i \in 1..Len(strs) |-> JsonString(strs[i])]) \o "]"

\* every scalar is erased to "value", whatever its type
TypeNameMutant(element) == "value"

\* str(element): the value is kept instead of its type
TypeNameValue(element) ==
    CASE element.t = "str" -> element.v
      [] element.t = "int" -> ToString(element.v)
      [] element.t = "bool" -> IF element.v THEN "True" ELSE "False"
      [] element.t = "null" -> "None"

\* type(element).__name__
TypeName(element) ==
    CASE element.t = "str" -> "str"
      [] element.t = "int" -> "int"
      [] element.t = "bool" -> "bool"
      [] element.t = "null" -> "NoneType"

RECURSIVE _hash_element(_)
_hash_element(element) ==
    IF IsDoc(element) THEN
        LET items == SortedItems(element)
        IN  JsonDumpsDict([i \in 1..Len(items) |->
                              <<items[i][1], _hash_element(items[i][2])>>])
    ELSE IF IsList(element) THEN
        JsonDumpsList([i \in 1..Len(element.v) |-> _hash_element(element.v[i])])
    ELSE IF IsStr(element) /\ StartsWith(element.v, "?") THEN
        element.v  \* Preserve placeholder types
    ELSE TypeName(element)  \* Use type name for non-placeholder values

(* hashlib.sha256(serialized.encode()).hexdigest().  SHA-256 is taken to be  *)
(* collision-free: the digest is modelled as a value that stands for the     *)
(* digested text, so two digests are equal exactly when the texts are.       *)
Sha256Hex(serialized) == [t |-> "sha256", v |-> serialized]

hash_query_shape(query_shape) == Sha256Hex(_hash_element(query_shape))

----------------------------------------------------------------------------
(* Shapes given to hash_query_shape *)

MaxHashList == 2

\* a field name that reads like the text between two serialized fields
QuoteKey == "a\": \"int\", \"b"

HashLeaves ==
    {Str("?number"), Str("?string"), Str("x"), Str("y"), Str("int"),
     Num(1), Num(2), Bool(TRUE), None}

HashFieldValues ==
    HashLeaves
    \cup {Doc(<<>>), List(<<>>), Doc(<<<<"a", Num(1)>>>>), List(<<Num(1)>>),
          Str("{\"a\": \"int\"}"), Str("?{\"a\": \"int\"}")}

HashDocs ==
    {Doc(<<>>)}
    \cup {Doc(<<<<k, x>>>>) : k \in {"a", "b", QuoteKey}, x \in HashFieldValues}
    \cup {Doc(<<<<ks[1], x>>, <<ks[2], y>>>>) :
             ks \in {<<"a", "b">>, <<"b", "a">>},
             x \in {Num(1), Num(2), Str("x"), Str("?number")},
             y \in {Num(1), Num(2), Str("x"), Str("?number")}}

HashLists ==
    {List(xs) : xs \in SeqsUpTo({Str("?number"), Num(1), Str("x"),
                                 Doc(<<<<"a", Num(1)>>>>)}, MaxHashList)}

\* query shapes with their command
CommandShapes ==
    {Doc(<<<<"command", Str(c)>>, <<"filter", f>>>>) :
        c \in {"find", "aggregate", "distinct"},
        f \in {Doc(<<>>), Doc(<<<<"a", Str("?number")>>>>)}}

HashShapes == HashDocs \cup HashLists \cup CommandShapes

----------------------------------------------------------------------------
(* correlate_queries *)

\* the loop goes on with the next record (`continue`)
Skip == [t |-> "continue", v |-> 0]

\* debug_shape.get('filter') or debug_shape.get('pipeline')
SettingShape(debug_shape) ==
    LET filter == GetOr(debug_shape, "filter", None)
    IN  IF Truthy(filter) THEN filter ELSE GetOr(debug_shape, "pipeline", None)

RECURSIVE SettingsHashMap(_, _)
\* the first loop: settings_hash_map as a dict from digest to settings record,
\* a later record replacing an earlier one of the same digest; Raised when a
\* record has no `get` (it is no dict)
SettingsHashMap(query_settings, settings_hash_map) ==
    IF Len(query_settings) = 0 THEN settings_hash_map
    ELSE LET setting == Head(query_settings) IN
         IF ~IsDoc(setting) THEN Raised
         ELSE LET debug_shape == GetOr(setting, "debugQueryShape", Doc(<<>>)) IN
              IF ~IsDoc(debug_shape) THEN Raised
              ELSE LET query_shape == SettingShape(debug_shape) IN
                   SettingsHashMap(Tail(query_settings),
                       IF Truthy(query_shape)
                       THEN Put(settings_hash_map, hash_query_shape(query_shape), setting)
                       ELSE settings_hash_map)

\* stat['key']['queryShape']
StatShape(stat) ==
    IF /\ IsDoc(stat) /\ HasKey(stat, "key")
       /\ IsDoc(Get(stat, "key")) /\ HasKey(Get(stat, "key"), "queryShape")
    THEN Get(Get(stat, "key"), "queryShape")
    ELSE Raised

\* as ShapeToHash, but a find that has a sort is looked up by its filter and its
\* sort together
ShapeToHashWithSort(query_shape) ==
    LET command == GetOr(query_shape, "command", None) IN
    IF command = Str("find") THEN
        IF HasKey(query_shape, "sort")
        THEN Doc(<<<<"filter", GetOr(query_shape, "filter", Doc(<<>>))>>,
                   <<"sort", Get(query_shape, "sort")>>>>)
        ELSE GetOr(query_shape, "filter", Doc(<<>>))
    ELSE IF command = Str("aggregate") THEN GetOr(query_shape, "pipeline", List(<<>>))
    ELSE Skip

\* as ShapeToHash, but a record of any other command is looked up by its filter
ShapeToHashMutant(query_shape) ==
    LET command == GetOr(query_shape, "command", None) IN
    IF command = Str("aggregate") THEN GetOr(query_shape, "pipeline", List(<<>>))
    ELSE GetOr(query_shape, "filter", Doc(<<>>))

\* the shape a stats record is looked up by: the filter of a find, the pipeline
\* of an aggregate; a record of any other command is skipped
ShapeToHash(query_shape) ==
    LET command == GetOr(query_shape, "command", None) IN
    IF command = Str("find") THEN GetOr(query_shape, "filter", Doc(<<>>))
    ELSE IF command = Str("aggregate") THEN GetOr(query_shape, "pipeline", List(<<>>))
    ELSE Skip

\* correlated_queries.append(...) puts the pair in front instead
AppendPairMutant(correlated_queries, stat, matching_setting) ==
    <<Doc(<<<<"query_stat", stat>>, <<"query_setting", matching_setting>>>>)>>
        \o correlated_queries

\* correlated_queries.append({'query_stat': stat, 'query_setting': matching_setting})
AppendPair(correlated_queries, stat, matching_setting) ==
    Append(correlated_queries,
           Doc(<<<<"query_stat", stat>>, <<"query_setting", matching_setting>>>>))

RECURSIVE CorrelateStats(_, _, _)
\* the second loop; Raised when a record has no key.queryShape or its shape is
\* no dict
CorrelateStats(query_stats, settings_hash_map, correlated_queries) ==
    IF Len(query_stats) = 0 THEN List(correlated_queries)
    ELSE LET stat == Head(query_stats)
             query_shape == StatShape(stat)
         IN  IF ~IsDoc(query_shape) THEN Raised
             ELSE LET shape_to_hash == ShapeToHash(query_shape) IN
                  IF shape_to_hash.t = "continue"
                  THEN CorrelateStats(Tail(query_stats), settings_hash_map,
                                      correlated_queries)
                  ELSE LET query_hash == hash_query_shape(shape_to_hash)
                           matching_setting ==
                               GetOr(settings_hash_map, query_hash, None)
                       IN  CorrelateStats(Tail(query_stats), settings_hash_map,
                               AppendPair(correlated_queries, stat, matching_setting))

\* query_stats is the list of one namespace's records; query_settings is what
\* get_debug_query_shapes returned: a list, or None when the retrieval failed
correlate_queries(query_stats, query_settings) ==
    safe_execute(
        IF ~Iterable(query_settings) \/ ~Iterable(query_stats) THEN Raised
        ELSE LET settings_hash_map == SettingsHashMap(IterItems(query_settings), Doc(<<>>))
             IN  IF settings_hash_map.t = "raise" THEN Raised
                 ELSE CorrelateStats(IterItems(query_stats), settings_hash_map, <<>>))

----------------------------------------------------------------------------
(* Records given to correlate_queries *)

MaxStats == 2

MaxSettings == 2

CmdNs == Doc(<<<<"db", Str("db")>>, <<"coll", Str("coll")>>>>)

FilterA == Doc(<<<<"a", Str("?number")>>>>)

FilterAB == Doc(<<<<"a", Str("?number")>>, <<"b", Str("?string")>>>>)

FilterBA == Doc(<<<<"b", Str("?string")>>, <<"a", Str("?number")>>>>)

PipelineA == List(<<Doc(<<<<"$match", FilterA>>>>)>>)

\* a record of $queryStats, as get_query_stats keeps it
StatRecord(command, field, shape) ==
    Doc(<<<<"key", Doc(<<<<"queryShape",
                           Doc(<<<<"cmdNs", CmdNs>>, <<"command", Str(command)>>,
                                 <<field, shape>>>>)>>>>)>>>>)

StatRecords ==
    {StatRecord("find", "filter", f) : f \in {Doc(<<>>), FilterAB}}
    \cup {StatRecord("aggregate", "pipeline", PipelineA),
          StatRecord("distinct", "query", FilterA)}

\* a record of $querySettings with showDebugQueryShape
SettingRecord(command, field, shape, reject) ==
    Doc(<<<<"debugQueryShape",
            Doc(<<<<"cmdNs", CmdNs>>, <<"command", Str(command)>>, <<field, shape>>>>)>>,
          <<"settings", Doc(<<<<"reject", Bool(reject)>>>>)>>>>)

\* the settings of FilterBA have the keys of the stats' FilterAB in another order
SettingRecords ==
    {SettingRecord("find", "filter", f, TRUE) : f \in {Doc(<<>>), FilterBA}}
    \cup {SettingRecord("find", "filter", FilterBA, FALSE),
          SettingRecord("aggregate", "pipeline", PipelineA, TRUE)}

StatLists == {List(xs) : xs \in SeqsUpTo(StatRecords, MaxStats)}

\* None: get_debug_query_shapes failed
SettingLists == {List(xs) : xs \in SeqsUpTo(SettingRecords, MaxSettings)} \cup {None}

----------------------------------------------------------------------------
(* transform_to_mongosh / stringify_for_mongosh *)

\* str(x), as an f-string formats a scalar
PyStr(x) ==
    CASE x.t = "str" -> x.v
      [] x.t = "int" -> ToString(x.v)
      [] x.t = "bool" -> IF x.v THEN "True" ELSE "False"
      [] x.t = "null" -> "None"

HexDigits == "0123456789abcdef"

\* the value of a hexadecimal digit, 16 for any other character
HexDigit(c) ==
    IF \E i \in 1..16 : SubSeq(HexDigits, i, i) = c
    THEN (CHOOSE i \in 1..16 : SubSeq(HexDigits, i, i) = c) - 1
    ELSE IF \E i \in 11..16 : SubSeq("0123456789ABCDEF", i, i) = c
    THEN (CHOOSE i \in 11..16 : SubSeq("0123456789ABCDEF", i, i) = c) - 1
    ELSE 16

RECURSIVE HexValue(_, _)
\* the number a string of hexadecimal digits stands for, after acc
HexValue(s, acc) ==
    IF Len(s) = 0 THEN acc
    ELSE HexValue(SubSeq(s, 2, Len(s)), 16 * acc + HexDigit(SubSeq(s, 1, 1)))

\* int(x, 16) for a str of digits; ValueError for a str that holds another
\* character or none, TypeError for a value that is no str
IntBase16(x) ==
    IF /\ IsStr(x) /\ Len(x.v) > 0
       /\ \A i \in 1..Len(x.v) : HexDigit(SubSeq(x.v, i, i)) < 16
    THEN Num(HexValue(x.v, 0))
    ELSE Raised

\* value[k1][k2]; KeyError or TypeError when there is no such entry
Get2(value, k1, k2) ==
    IF IsDoc(Get(value, k1)) /\ HasKey(Get(value, k1), k2)
    THEN Get(Get(value, k1), k2)
    ELSE Raised

\* the first child that raised, if any, else the children
AllOrRaised(children, built) ==
    IF \E i \in 1..Len(children) : children[i].t = "raise" THEN Raised ELSE built

\* the constructor call a dict with a BSON extended-JSON key is turned into
BsonConstructor(value) ==
    IF HasKey(value, "$date") THEN
        Str("ISODate(\"" \o PyStr(Get(value, "$date")) \o "\")")
    ELSE IF HasKey(value, "$oid") THEN
        Str("ObjectId(\"" \o PyStr(Get(value, "$oid")) \o "\")")
    ELSE IF HasKey(value, "$binary") THEN
        LET subType == Get2(value, "$binary", "subType")
            base64 == Get2(value, "$binary", "base64")
        IN  IF subType.t = "raise" \/ IntBase16(subType).t = "raise" \/ base64.t = "raise"
            THEN Raised
            ELSE Str("BinData(" \o PyStr(IntBase16(subType)) \o ", \""
                         \o PyStr(base64) \o "\")")
    ELSE IF HasKey(value, "$timestamp") THEN
        LET t == Get2(value, "$timestamp", "t")
            i == Get2(value, "$timestamp", "i")
        IN  IF t.t = "raise" \/ i.t = "raise" THEN Raised
            ELSE Str("Timestamp(" \o PyStr(t) \o ", " \o PyStr(i) \o ")")
    ELSE IF HasKey(value, "$minKey") THEN Str("MinKey()")
    ELSE Str("MaxKey()")

BsonKeys == {"$date", "$oid", "$binary", "$timestamp", "$minKey", "$maxKey"}

RECURSIVE transform(_)
transform(value) ==
    IF IsDoc(value) THEN
        IF \E k \in BsonKeys : HasKey(value, k) THEN BsonConstructor(value)
        ELSE LET children == [i \in 1..Len(value.v) |-> transform(value.v[i][2])]
             IN  AllOrRaised(children,
                     Doc([i \in 1..Len(value.v) |-> <<value.v[i][1], children[i]>>]))
    ELSE IF IsList(value) THEN
        LET children == [i \in 1..Len(value.v) |-> transform(value.v[i])]
        IN  AllOrRaised(children, List(children))
    ELSE value

transform_to_mongosh(query) == safe_execute(transform(query))

RECURSIVE Spaces(_)
\* ' ' * n
Spaces(n) == IF n <= 0 THEN "" ELSE " " \o Spaces(n - 1)

RECURSIVE RStripComma(_)
\* s.rstrip(',')
RStripComma(s) ==
    IF Len(s) > 0 /\ SubSeq(s, Len(s), Len(s)) = ","
    THEN RStripComma(SubSeq(s, 1, Len(s) - 1))
    ELSE s

RECURSIVE JoinLines(_)
\* "\n".join(lines)
JoinLines(lines) ==
    IF Len(lines) = 0 THEN ""
    ELSE IF Len(lines) = 1 THEN lines[1]
    ELSE lines[1] \o "\n" \o JoinLines(Tail(lines))

\* lines[-1] = lines[-1].rstrip(','), for the lines after the opening bracket
StripLast(lines) ==
    [i \in 1..Len(lines) |-> IF i = Len(lines) THEN RStripComma(lines[i]) ELSE lines[i]]

\* as StringifyStr, but every string is returned as its JSON literal
StringifyStrMutant(obj) == JsonString(obj)

\* the str branch: a string that reads like a constructor call is returned as
\* it is, any other string as its JSON literal
StringifyStr(obj) ==
    IF \/ StartsWith(obj, "ISODate(") \/ StartsWith(obj, "ObjectId(")
       \/ StartsWith(obj, "BinData(") \/ StartsWith(obj, "Timestamp(")
       \/ obj = "MinKey()" \/ obj = "MaxKey()"
    THEN obj
    ELSE JsonString(obj)

\* as ChildIndent, but the children are put at the indent of their parent
ChildIndentMutant(indent) == indent

\* indent + 2
ChildIndent(indent) == indent + 2

RECURSIVE stringify_for_mongosh(_, _)
\* the text returned; a key is rendered by stringify_for_mongosh(k) like any
\* string
stringify_for_mongosh(obj, indent) ==
    IF IsDoc(obj) THEN
        IF ~Truthy(obj) THEN "{}"
        ELSE LET lines == [i \in 1..Len(obj.v) |->
                     Spaces(ChildIndent(indent))
                         \o stringify_for_mongosh(Str(obj.v[i][1]), 0) \o ": "
                         \o stringify_for_mongosh(obj.v[i][2], ChildIndent(indent)) \o ","]
             IN  JoinLines(<<"{">> \o StripLast(lines) \o <<Spaces(indent) \o "}">>)
    ELSE IF IsList(obj) THEN
        IF ~Truthy(obj) THEN "[]"
        ELSE LET lines == [i \in 1..Len(obj.v) |->
                     Spaces(ChildIndent(indent))
                         \o stringify_for_mongosh(obj.v[i], ChildIndent(indent)) \o ","]
             IN  JoinLines(<<"[">> \o StripLast(lines) \o <<Spaces(indent) \o "]">>)
    ELSE IF IsStr(obj) THEN StringifyStr(obj.v)
    ELSE IF obj.t = "null" THEN "null"
    ELSE IF obj.t = "bool" THEN (IF obj.v THEN "true" ELSE "false")
    ELSE PyStr(obj)

----------------------------------------------------------------------------
(* create_rejection_filter *)

\* as AttachQuery, but the query is always attached as the filter
AttachQueryMutant(set_query_settings, transformed_query) ==
    Put(set_query_settings, "filter", transformed_query)

\* the query is attached as the pipeline when it is a list, else as the filter
AttachQuery(set_query_settings, transformed_query) ==
    IF IsList(transformed_query)
    THEN Put(set_query_settings, "pipeline", transformed_query)
    ELSE Put(set_query_settings, "filter", transformed_query)

\* as CommandEntry, but every command is entered as a find
CommandEntryMutant(command, coll_name, db_name) ==
    Put(Doc(<<<<"find", coll_name>>>>), "$db", db_name)

\* {command: coll_name, "$db": db_name}
CommandEntry(command, coll_name, db_name) ==
    Put(Doc(<<<<command.v, coll_name>>>>), "$db", db_name)

\* the document rejection_filter as it is when it is serialized; Raised when the
\* shape has no cmdNs.db or cmdNs.coll
RejectionDocument(query_shape, rep_query) ==
    IF \/ ~IsDoc(query_shape) \/ ~HasKey(query_shape, "cmdNs")
       \/ Get2(query_shape, "cmdNs", "db").t = "raise"
       \/ Get2(query_shape, "cmdNs", "coll").t = "raise"
    THEN Raised
    ELSE LET command == GetOr(query_shape, "command", Str("Unknown"))
             db_name == Get2(query_shape, "cmdNs", "db")
             coll_name == Get2(query_shape, "cmdNs", "coll")
             sort == GetOr(query_shape, "sort", None)
             transformed_query == transform_to_mongosh(rep_query)
             with_query == AttachQuery(CommandEntry(command, coll_name, db_name),
                                       transformed_query)
         IN  Doc(<<<<"setQuerySettings",
                     IF Truthy(sort) THEN Put(with_query, "sort", sort) ELSE with_query>>,
                   <<"settings", Doc(<<<<"reject", Bool(TRUE)>>>>)>>>>)

\* the text of the command, or None when building the document raised
create_rejection_filter(query_shape, rep_query) ==
    LET rejection_filter == RejectionDocument(query_shape, rep_query)
    IN  IF rejection_filter.t = "raise" THEN None
        ELSE Str("db.adminCommand(\n" \o stringify_for_mongosh(rejection_filter, 2)
                     \o "\n)")

----------------------------------------------------------------------------
(* Shapes given to create_rejection_filter, values given to the serializer *)

MaxStages == 2

\* filters of captured shapes; field names are the user's
RejFilters ==
    {Doc(<<>>),
     Doc(<<<<"status", Str("?string")>>>>),
     Doc(<<<<"d", Str("?date")>>, <<"o", Str("?objectId")>>>>),
     Doc(<<<<"b", Str("?binData")>>, <<"t", Str("?timestamp")>>>>),
     Doc(<<<<"m", Str("?minKey")>>, <<"x", Str("?maxKey")>>>>),
     Doc(<<<<"n", Str("?null")>>, <<"f", Str("?bool")>>, <<"r", Str("?regex")>>>>),
     Doc(<<<<"a", Doc(<<<<"$gt", Str("?number")>>>>)>>, <<"e", Doc(<<>>)>>>>),
     Doc(<<<<"l", Str("?array<?date>")>>, <<"u", Str("?array<>")>>>>),
     Doc(<<<<"ISODate(k", Str("?number")>>>>),
     Doc(<<<<"MinKey()", Str("?string")>>, <<"q\"k", Str("?number")>>>>)}

RejStages ==
    {Doc(<<<<"$match", f>>>>) :
        f \in {Doc(<<<<"status", Str("?string")>>>>), Doc(<<<<"d", Str("?date")>>>>)}}
    \cup {Doc(<<<<"$sort", Doc(<<<<"c", Num(1)>>>>)>>>>)}

RejPipelines == {List(xs) : xs \in SeqsUpTo(RejStages, MaxStages)}

RejSorts == {None, Doc(<<>>), Doc(<<<<"c", Num(1)>>>>)}

\* a query shape: cmdNs, command, filter or pipeline, and the sort if any
RejShape(ns, command, field, shape, sort) ==
    Doc(ns \o <<<<"command", Str(command)>>, <<field, shape>>>>
           \o (IF sort = None THEN <<>> ELSE <<<<"sort", sort>>>>))

\* the shape has its cmdNs, or none
RejNs == {<<<<"cmdNs", CmdNs>>>>, <<>>}

RejShapes ==
    {RejShape(ns, "find", "filter", f, sort) :
        ns \in RejNs, f \in RejFilters, sort \in RejSorts}
    \cup {RejShape(ns, "aggregate", "pipeline", p, sort) :
             ns \in RejNs, p \in RejPipelines, sort \in RejSorts}
    \cup {RejShape(ns, c, "query", f, sort) :
             ns \in RejNs, c \in {"distinct", "count"},
             f \in {Doc(<<<<"status", Str("?string")>>>>)}, sort \in RejSorts}
    \cup {Doc(<<<<"cmdNs", CmdNs>>, <<"filter", Doc(<<>>)>>>>)}

\* rep_query as display_query_stat makes it of the shape
RepQueryOf(query_shape) ==
    IF GetOr(query_shape, "command", Str("Unknown")) = Str("find")
    THEN create_representative_query(GetOr(query_shape, "filter", Doc(<<>>)))
    ELSE create_representative_query(GetOr(query_shape, "pipeline", List(<<>>)))

\* what transform_to_mongosh is given: representative queries, a BSON literal
\* alone, and literals that do not have the entries the constructor is made of
ShellQueries ==
    {create_representative_query(q) : q \in RejFilters \cup RejPipelines}
    \cup {DateLiteral, OidLiteral, BinaryLiteral, TimestampLiteral, MinKeyLiteral,
          MaxKeyLiteral}
    \cup {List(<<x, y>>) : x, y \in {DateLiteral, MinKeyLiteral, Str("a"), Str("MinKey"),
                                     Str("?regex"), None, Bool(FALSE), Num(1)}}
    \cup {Doc(<<<<"b", Doc(<<<<"$binary", x>>>>)>>>>) :
             x \in {Str("YQ=="),
                    Doc(<<<<"base64", Str("YQ==")>>, <<"subType", Str("zz")>>>>),
                    Doc(<<<<"base64", Str("YQ==")>>, <<"subType", Str("fF")>>>>),
                    Doc(<<<<"base64", Str("YQ==")>>>>)}}

----------------------------------------------------------------------------
(* has_collscan *)

\* as StrIn, but only the whole string counts
StrInMutant(sub, s) == s = sub

\* `sub in s` for two strings
StrIn(sub, s) ==
    \E i \in 1..(Len(s) - Len(sub) + 1) : SubSeq(s, i, i + Len(sub) - 1) = sub

\* 'COLLSCAN' in stage: a substring of a str, an element of a list, a key of a
\* dict; TypeError for any other value
CollscanIn(stage) ==
    CASE stage.t = "str" -> Bool(StrIn("COLLSCAN", stage.v))
      [] stage.t = "list" -> Bool(\E i \in 1..Len(stage.v) : stage.v[i] = Str("COLLSCAN"))
      [] stage.t = "doc" -> Bool(HasKey(stage, "COLLSCAN"))
      [] OTHER -> Raised

RECURSIVE AnyCollscan(_)
\* any(...): the entries are tested in order up to the first that holds
AnyCollscan(stages) ==
    IF Len(stages) = 0 THEN Bool(FALSE)
    ELSE LET found == CollscanIn(Head(stages))
         IN  IF found.t = "raise" THEN Raised
             ELSE IF found.v THEN Bool(TRUE)
             ELSE AnyCollscan(Tail(stages))

has_collscan(stages) ==
    safe_execute(IF Iterable(stages) THEN AnyCollscan(IterItems(stages)) ELSE Raised)

MaxStageList == 3

\* stage names, with names that hold COLLSCAN inside and names that nearly do
ScanStageNames ==
    {"COLLSCAN", "IXSCAN", "FETCH", "XCOLLSCAN_Y", "COLLSCA", "collscan", "COLL_SCAN"}

\* what get_plan_stages returns for a plan
StageLists == {List(xs) : xs \in SeqsUpTo({Str(n) : n \in ScanStageNames}, MaxStageList)}

----------------------------------------------------------------------------
(* Malformed records given to correlate_queries *)

\* records that lack key, or key.queryShape
MalformedStatRecords ==
    {Doc(<<<<"metrics", Doc(<<<<"execCount", Num(1)>>>>)>>>>),
     Doc(<<<<"key", Doc(<<<<"client", Doc(<<>>)>>>>)>>>>)}

\* stats lists with at least one such record
MalformedStatLists ==
    {List(xs) : xs \in {ys \in SeqsUpTo(StatRecords \cup MalformedStatRecords, MaxStats) :
                           \E i \in 1..Len(ys) : ys[i] \in MalformedStatRecords}}

----------------------------------------------------------------------------
(* The functions over a store of objects *)

(* To see which objects a function writes to, the dicts and lists are kept  *)
(* in a store: a sequence of objects, an object's address being its index.  *)
(* A dict in the store is Doc(<<key, x>> pairs), a list List(xs), where each *)
(* x is a scalar or the reference Ref(a) to the object at address a.  `{}`, *)
(* `[]`, a dict or list display and a comprehension allocate a new object;  *)
(* `d[k] = x` and `l.append(x)` write to the object d or l refers to,        *)
(* whichever name it is reached by.  Each function below follows the         *)
(* statements of its source and returns [h |-> the store after, r |-> the   *)
(* value returned].                                                          *)

Ref(a) == [t |-> "ref", v |-> a]

IsRef(x) == x.t = "ref"

\* x refers to a dict / to a list of the store h
IsDocRef(h, x) == IsRef(x) /\ h[x.v].t = "doc"

IsListRef(h, x) == IsRef(x) /\ h[x.v].t = "list"

\* a new object
Alloc(h, obj) == [h |-> Append(h, obj), r |-> Ref(Len(h) + 1)]

\* d[k] = x, for the dict d refers to
SetItem(h, d, k, x) == [h EXCEPT ![d.v] = Put(h[d.v], k, x)]

\* l.append(x), for the list l refers to
AppendItem(h, l, x) == [h EXCEPT ![l.v] = List(Append(h[l.v].v, x))]

RECURSIVE Store(_, _)
RECURSIVE StoreAll(_, _, _)
\* the objects of a value built by a display ({...}, [...]) are allocated,
\* the inner ones first
Store(h, value) ==
    IF IsDoc(value) THEN
        CHOOSE obj \in
            {Alloc(kids.h, Doc([i \in 1..Len(value.v) |-> <<value.v[i][1], kids.r[i]>>])) :
                 kids \in {StoreAll(h, [i \in 1..Len(value.v) |-> value.v[i][2]], <<>>)}} :
            TRUE
    ELSE IF IsList(value) THEN
        CHOOSE obj \in {Alloc(kids.h, List(kids.r)) :
                            kids \in {StoreAll(h, value.v, <<>>)}} : TRUE
    ELSE [h |-> h, r |-> value]

\* the values of a display are evaluated from left to right, each in the store
\* the one before it left
StoreAll(h, values, refs) ==
    IF Len(values) = 0 THEN [h |-> h, r |-> refs]
    ELSE CHOOSE all \in {StoreAll(one.h, Tail(values), Append(refs, one.r)) :
                             one \in {Store(h, Head(values))}} : TRUE

RECURSIVE Deref(_, _)
\* the value x stands for in the store h
Deref(h, x) ==
    IF IsRef(x) THEN
        LET obj == h[x.v] IN
        IF obj.t = "doc"
        THEN Doc([i \in 1..Len(obj.v) |-> <<obj.v[i][1], Deref(h, obj.v[i][2])>>])
        ELSE List([i \in 1..Len(obj.v) |-> Deref(h, obj.v[i])])
    ELSE x

RECURSIVE create_representative_query_h(_, _)
RECURSIVE RepItems(_, _, _)
RECURSIVE RepList(_, _, _)

\* as RepTarget, but the entries are written into the dict that was passed in
RepTargetMutant(query_doc, rep_query) == query_doc

\* the dict the entries are written to: rep_query[key] = ...
RepTarget(query_doc, rep_query) == rep_query

\* the loop over query_doc.items(), with the store and the items left
RepItems(h, target, items) ==
    IF Len(items) = 0 THEN h
    ELSE LET key == Head(items)[1]
             value == Head(items)[2]
         IN  IF IsStr(value) /\ StartsWith(value.v, "?") THEN
                 LET literal == Store(h, RepresentativeValue(value.v))
                 IN  RepItems(SetItem(literal.h, target, key, literal.r), target, Tail(items))
             ELSE IF IsDocRef(h, value) THEN
                 LET sub == create_representative_query_h(h, value)
                 IN  RepItems(SetItem(sub.h, target, key, sub.r), target, Tail(items))
             ELSE IF IsListRef(h, value) THEN
                 LET sub == RepList(h, h[value.v].v, <<>>)
                 IN  RepItems(SetItem(sub.h, target, key, sub.r), target, Tail(items))
             ELSE RepItems(SetItem(h, target, key, value), target, Tail(items))

\* [create_representative_query(item) for item in value]
RepList(h, elems, done) ==
    IF Len(elems) = 0 THEN Alloc(h, List(done))
    ELSE LET sub == create_representative_query_h(h, Head(elems))
         IN  RepList(sub.h, Tail(elems), Append(done, sub.r))

create_representative_query_h(h, query_doc) ==
    IF IsDocRef(h, query_doc) THEN
        LET rep_query == Alloc(h, Doc(<<>>))
        IN  [h |-> RepItems(rep_query.h, RepTarget(query_doc, rep_query.r),
                            h[query_doc.v].v),
             r |-> rep_query.r]
    ELSE IF IsListRef(h, query_doc) THEN RepList(h, h[query_doc.v].v, <<>>)
    ELSE [h |-> h, r |-> query_doc]

RECURSIVE transform_h(_, _)
RECURSIVE TransformItems(_, _, _)
RECURSIVE TransformList(_, _, _)

\* {k: transform(v) for k, v in value.items()}
TransformItems(h, items, done) ==
    IF Len(items) = 0 THEN Alloc(h, Doc(done))
    ELSE LET sub == transform_h(h, Head(items)[2])
         IN  TransformItems(sub.h, Tail(items), Append(done, <<Head(items)[1], sub.r>>))

\* [transform(item) for item in value]
TransformList(h, elems, done) ==
    IF Len(elems) = 0 THEN Alloc(h, List(done))
    ELSE LET sub == transform_h(h, Head(elems))
         IN  TransformList(sub.h, Tail(elems), Append(done, sub.r))

\* transform of transform_to_mongosh, for a query none of whose literals raises
transform_h(h, value) ==
    IF IsDocRef(h, value) THEN
        IF \E k \in BsonKeys : HasKey(h[value.v], k)
        THEN [h |-> h, r |-> BsonConstructor(Deref(h, value))]
        ELSE TransformItems(h, h[value.v].v, <<>>)
    ELSE IF IsListRef(h, value) THEN TransformList(h, h[value.v].v, <<>>)
    ELSE [h |-> h, r |-> value]

RECURSIVE simplify_filter_h(_, _)
RECURSIVE SimplifyItems(_, _, _)
RECURSIVE SimplifyList(_, _, _)

\* the loop over filter_doc.items(): simplified[key] = ...
SimplifyItems(h, simplified, items) ==
    IF Len(items) = 0 THEN h
    ELSE LET key == Head(items)[1]
             value == Head(items)[2]
         IN  IF key = "$and" \/ key = "$or" THEN
                 \* the branches of the filters given here are lists
                 CASE IsListRef(h, value) ->
                     LET sub == SimplifyList(h, h[value.v].v, <<>>)
                     IN  SimplifyItems(SetItem(sub.h, simplified, key, sub.r),
                                       simplified, Tail(items))
             ELSE IF IsDocRef(h, value) /\ HasOperatorKey(h[value.v]) THEN
                 SimplifyItems(SetItem(h, simplified, key,
                                       Str(FirstOperatorKey(h[value.v]))),
                               simplified, Tail(items))
             ELSE IF IsStr(value) /\ StartsWith(value.v, "?") THEN
                 SimplifyItems(SetItem(h, simplified, key, Str("$eq")),
                               simplified, Tail(items))
             ELSE LET sub == simplify_filter_h(h, value)
                  IN  SimplifyItems(SetItem(sub.h, simplified, key, sub.r),
                                    simplified, Tail(items))

\* [simplify_filter(item) for item in ...]
SimplifyList(h, elems, done) ==
    IF Len(elems) = 0 THEN Alloc(h, List(done))
    ELSE LET sub == simplify_filter_h(h, Head(elems))
         IN  SimplifyList(sub.h, Tail(elems), Append(done, sub.r))

simplify_filter_h(h, filter_doc) ==
    IF IsDocRef(h, filter_doc) THEN
        LET simplified == Alloc(h, Doc(<<>>))
        IN  [h |-> SimplifyItems(simplified.h, simplified.r, h[filter_doc.v].v),
             r |-> simplified.r]
    ELSE IF IsListRef(h, filter_doc) THEN SimplifyList(h, h[filter_doc.v].v, <<>>)
    ELSE [h |-> h, r |-> filter_doc]

RECURSIVE IndexItems(_, _, _)
\* for field in ...: suggested_index[field] = 1
IndexItems(h, suggested_index, fields) ==
    IF Len(fields) = 0 THEN h
    ELSE IndexItems(SetItem(h, suggested_index, Head(fields), Num(1)),
                    suggested_index, Tail(fields))

\* suggest_index, for a sort that is a dict or None; extract_fields and the
\* loop over its pairs only read
suggest_index_h(h, filter_doc, sort_doc) ==
    LET simplified_filter == simplify_filter_h(h, filter_doc)
        g == ClassifyFields(extract_fields(Deref(simplified_filter.h, simplified_filter.r)),
                            [equality_fields |-> <<>>, range_fields |-> <<>>])
        sort_keys == IF IsRef(sort_doc) /\ Len(h[sort_doc.v].v) > 0
                     THEN Keys(h[sort_doc.v]) ELSE <<>>
        sort_fields ==
            SelectSeq(sort_keys, LAMBDA f : /\ ~InSeq(f, g.equality_fields)
                                            /\ ~InSeq(f, g.range_fields))
        suggested_index == Alloc(simplified_filter.h, Doc(<<>>))
    IN  [h |-> IndexItems(suggested_index.h, suggested_index.r,
                          CombineFields(g.equality_fields, sort_fields, g.range_fields)),
         r |-> suggested_index.r]

\* hash_query_shape has no statement that writes to a dict or a list
hash_query_shape_h(h, query_shape) ==
    [h |-> h, r |-> hash_query_shape(Deref(h, query_shape))]

\* bool(x) for a scalar or a reference
TruthyIn(h, x) == IF IsRef(x) THEN Len(h[x.v].v) > 0 ELSE Truthy(x)

RECURSIVE SettingsLoop(_, _, _)
\* the first loop of correlate_queries, for settings records that are dicts with
\* their debugQueryShape: settings_hash_map[query_hash] = setting
SettingsLoop(h, settings_hash_map, settings) ==
    IF Len(settings) = 0 THEN h
    ELSE LET setting == Head(settings)
             debug_shape == h[Get(h[setting.v], "debugQueryShape").v]
             filter == GetOr(debug_shape, "filter", None)
             query_shape == IF TruthyIn(h, filter) THEN filter
                            ELSE GetOr(debug_shape, "pipeline", None)
             \* the store after this iteration, before the next one starts
             after == IF TruthyIn(h, query_shape)
                      THEN SetItem(h, settings_hash_map,
                                   hash_query_shape(Deref(h, query_shape)), setting)
                      ELSE h
         IN  CHOOSE last \in {SettingsLoop(h1, settings_hash_map, Tail(settings)) :
                                  h1 \in {after}} : TRUE

RECURSIVE StatsLoop(_, _, _, _)
\* the second loop, for stats records with their key.queryShape:
\* correlated_queries.append({...})
StatsLoop(h, settings_hash_map, correlated_queries, stats) ==
    IF Len(stats) = 0 THEN h
    ELSE LET stat == Head(stats)
             query_shape == h[Get(h[Get(h[stat.v], "key").v], "queryShape").v]
             command == GetOr(query_shape, "command", None)
             shape_to_hash ==
                 IF command = Str("find") THEN GetOr(query_shape, "filter", Doc(<<>>))
                 ELSE GetOr(query_shape, "pipeline", List(<<>>))
         IN  IF command \notin {Str("find"), Str("aggregate")}
             THEN StatsLoop(h, settings_hash_map, correlated_queries, Tail(stats))
             ELSE LET query_hash == hash_query_shape(Deref(h, shape_to_hash))
                      matching_setting == GetOr(h[settings_hash_map.v], query_hash, None)
                      pair == Alloc(h, Doc(<<<<"query_stat", stat>>,
                                             <<"query_setting", matching_setting>>>>))
                  IN  CHOOSE last \in
                          {StatsLoop(h1, settings_hash_map, correlated_queries,
                                     Tail(stats)) :
                               h1 \in {AppendItem(pair.h, correlated_queries, pair.r)}} :
                          TRUE

correlate_queries_h(h, query_stats, query_settings) ==
    LET settings_hash_map == Alloc(h, Doc(<<>>))
        h1 == SettingsLoop(settings_hash_map.h, settings_hash_map.r, h[query_settings.v].v)
        correlated_queries == Alloc(h1, List(<<>>))
    IN  CHOOSE ret \in
            {[h |-> StatsLoop(h2, settings_hash_map.r, correlated_queries.r,
                              h[query_stats.v].v),
              r |-> correlated_queries.r] : h2 \in {correlated_queries.h}} : TRUE

\* create_rejection_filter, for a shape with its cmdNs; stringify_for_mongosh
\* only reads
create_rejection_filter_h(h, query_shape, rep_query) ==
    LET shape == h[query_shape.v]
        command == GetOr(shape, "command", Str("Unknown"))
        db_name == Get(h[Get(shape, "cmdNs").v], "db")
        coll_name == Get(h[Get(shape, "cmdNs").v], "coll")
        sort == GetOr(shape, "sort", None)
        set_query_settings == Alloc(h, CommandEntry(command, coll_name, db_name))
        settings == Alloc(set_query_settings.h, Doc(<<<<"reject", Bool(TRUE)>>>>))
        rejection_filter ==
            Alloc(settings.h, Doc(<<<<"setQuerySettings", set_query_settings.r>>,
                                    <<"settings", settings.r>>>>))
        transformed_query == transform_h(rejection_filter.h, rep_query)
        \* rejection_filter["setQuerySettings"]
        target == Get(transformed_query.h[rejection_filter.r.v], "setQuerySettings")
        h1 == IF IsListRef(transformed_query.h, transformed_query.r)
              THEN SetItem(transformed_query.h, target, "pipeline", transformed_query.r)
              ELSE SetItem(transformed_query.h, target, "filter", transformed_query.r)
        h2 == IF TruthyIn(h1, sort) THEN SetItem(h1, target, "sort", sort) ELSE h1
    IN  [h |-> h2,
         r |-> Str("db.adminCommand(\n"
                       \o stringify_for_mongosh(Deref(h2, rejection_filter.r), 2)
                       \o "\n)")]

----------------------------------------------------------------------------
(* Records in the store *)

\* filters with $and / $or, for simplify_filter
StoreLogicalFilters ==
    {Doc(<<<<"$and", List(<<Doc(<<<<"a", Gt>>>>), Doc(<<<<"a", Str("?number")>>>>)>>)>>>>),
     Doc(<<<<"c", GtLt>>,
           <<"$or", List(<<Doc(<<<<"a", Str("?string")>>>>),
                           Doc(<<<<"b", Doc(<<<<"d", Str("?string")>>>>)>>>>)>>)>>>>)}

\* the query shapes of the records of $queryStats
StoreShapes ==
    {RejShape(<<<<"cmdNs", CmdNs>>>>, "find", "filter", f, sort) :
        f \in RejFilters \cup StoreLogicalFilters, sort \in RejSorts}
    \cup {RejShape(<<<<"cmdNs", CmdNs>>>>, "aggregate", "pipeline", p, sort) :
             p \in RejPipelines, sort \in RejSorts}

\* a record of $queryStats with its shape
EntryOf(shape) == Doc(<<<<"key", Doc(<<<<"queryShape", shape>>>>)>>>>)

----------------------------------------------------------------------------
(* Plan nodes to which more than one case of get_stages_r applies *)

\* the keys of the cases, in the order get_stages_r tests them
CaseKeys == <<"queryPlanner", "winningPlan", "queryPlan", "stage", "stages">>

\* the stage name that tells the plan under the key k from the others
CaseTag(k) ==
    CASE k = "queryPlanner" -> "IXSCAN"
      [] k = "winningPlan" -> "COLLSCAN"
      [] k = "queryPlan" -> "FETCH"
      [] k = "stage" -> "SORT"
      [] k = "stages" -> "PROJECTION"

\* the plans put under the key k
CasePlans(k) ==
    {StageNode(CaseTag(k)), ChainOf(<<"LIMIT", CaseTag(k)>>),
     Wrap("winningPlan", StageNode(CaseTag(k)))}

\* the entries of a node for the case of k: a wrapper key, a stage with its
\* child, a stages array with the $cursor first
CaseEntries(k, p) ==
    CASE k = "stage" -> <<<<"stage", Str("OWN")>>, <<"inputStage", p>>>>
      [] k = "stages" -> <<<<"stages", List(<<Doc(<<<<"$cursor", p>>>>)>>)>>>>
      [] OTHER -> <<<<k, p>>>>

\* nodes with the entries of two cases, in either order
TwoCaseNodes ==
    UNION {{Doc(CaseEntries(CaseKeys[x[1]], p) \o CaseEntries(CaseKeys[x[2]], q)) :
                p \in CasePlans(CaseKeys[x[1]]), q \in CasePlans(CaseKeys[x[2]])} :
           x \in {y \in (1..5) \X (1..5) : y[1] # y[2]}}

\* a stages array whose first two elements have a $cursor
TwoCursorNodes ==
    {Doc(<<<<"stages", List(<<Doc(<<<<"$cursor", p>>>>), Doc(<<<<"$cursor", q>>>>)>>)>>>>) :
        p \in CasePlans("stages"), q \in CasePlans("stage")}

PriorityPlans == TwoCaseNodes \cup TwoCursorNodes \cup BothKidsNodes

----------------------------------------------------------------------------
(* Filters given to simplify_filter *)

\* field values with operator keys: the operators in another order, a key that
\* is no operator before the operators, one operator
OperatorValues ==
    {GtLt,
     Doc(<<<<"$lt", Str("?number")>>, <<"$gt", Str("?number")>>>>),
     Doc(<<<<"d", Num(1)>>, <<"$lte", Str("?number")>>, <<"$gte", Str("?number")>>>>),
     Doc(<<<<"$in", Str("?array<?number>")>>>>)}

\* filters with such a value, alone, after a probe, and in a branch of a $or
OperatorFilters ==
    {Doc(<<<<"a", val>>>>) : val \in OperatorValues}
    \cup {Doc(<<<<"b", Str("?date")>>, <<"a", val>>>>) : val \in OperatorValues}
    \cup {Doc(<<<<"$or", List(<<Doc(<<<<"a", val>>>>), Doc(<<<<"b", Str("?bool")>>>>),
                               Doc(<<>>)>>)>>>>) : val \in OperatorValues}

----------------------------------------------------------------------------
(* display_query_stat *)

\* what is not built and not shown
NotShown == [t |-> "notshown", v |-> 0]

\* filter_doc of display_query_stat: the filter of a find, the $match of the
\* first stage of an aggregate that has one, {} otherwise
DisplayFilterDoc(query_shape, command) ==
    IF command = Str("aggregate") THEN
        LET pipeline == GetOr(query_shape, "pipeline", List(<<>>))
            matches == SelectSeq(pipeline.v, LAMBDA stage : HasKey(stage, "$match"))
        IN  IF Len(matches) = 0 THEN Doc(<<>>) ELSE Get(Head(matches), "$match")
    ELSE IF command = Str("find") THEN GetOr(query_shape, "filter", Doc(<<>>))
    ELSE Doc(<<>>)

\* as RejectedAlready, but a setting is taken to reject only when it says
\* nothing else: the test of reject is dropped
RejectedAlreadyMutant(matching_setting) == Truthy(matching_setting)

\* matching_setting and matching_setting.get('settings', {}).get('reject', False)
RejectedAlready(matching_setting) ==
    /\ Truthy(matching_setting)
    /\ Truthy(GetOr(GetOr(matching_setting, "settings", Doc(<<>>)), "reject", Bool(FALSE)))

\* what display_query_stat shows of an entry that has its key.queryShape: the
\* plan stages, the suggested index and the rejection command, each NotShown
\* when its branch is not taken; plan is what get_explain_plan returned
display_query_stat(plan, entry, matching_setting, show_rejection_filter) ==
    LET query_shape == Get(Get(entry, "key"), "queryShape")
        command == GetOr(query_shape, "command", Str("Unknown"))
        sort == GetOr(query_shape, "sort", None)
        stages == IF Truthy(plan) THEN get_plan_stages(plan) ELSE NotShown
        suggested_index ==
            IF Truthy(plan) /\ has_collscan(stages) = Bool(TRUE)
            THEN suggest_index(DisplayFilterDoc(query_shape, command), sort)
            ELSE NotShown
        rejection_filter ==
            IF /\ show_rejection_filter
               /\ command \in {Str("find"), Str("aggregate")}
               /\ ~RejectedAlready(matching_setting)
            THEN create_rejection_filter(query_shape, RepQueryOf(query_shape))
            ELSE NotShown
    IN  Doc(<<<<"stages", stages>>, <<"suggested_index", suggested_index>>,
              <<"rejection_filter", rejection_filter>>>>)

\* what get_explain_plan returns: a plan with a collection scan, one with an
\* index scan, None
DisplayPlans ==
    {Wrap("queryPlanner", Wrap("winningPlan", StageNode("COLLSCAN"))),
     Wrap("queryPlanner", Wrap("winningPlan", ChainOf(<<"FETCH", "IXSCAN">>))),
     None}

\* the stats of the selected namespace: one record, or two
NamespaceStats ==
    {List(<<stat>>) : stat \in StatRecords}
    \cup {List(<<StatRecord("find", "filter", FilterAB),
                 StatRecord("aggregate", "pipeline", PipelineA)>>)}

----------------------------------------------------------------------------
(* Stats records that differ in what correlate_queries does not look at *)

\* a record of $queryStats with its namespace, and with a sort, the client and
\* the metrics when it has them
VariantRecord(db, command, field, shape, more) ==
    Doc(<<<<"key",
            Doc(<<<<"queryShape",
                    Doc(<<<<"cmdNs", Doc(<<<<"db", Str(db)>>, <<"coll", Str("coll")>>>>)>>,
                          <<"command", Str(command)>>, <<field, shape>>>>
                        \o (IF more THEN <<<<"sort", Doc(<<<<"a", Num(1)>>>>)>>>> ELSE <<>>))>>>>
                \o (IF more
                    THEN <<<<"client", Doc(<<<<"application", Str("mongosh")>>>>)>>>>
                    ELSE <<>>))>>>>
        \o (IF more THEN <<<<"metrics", Doc(<<<<"execCount", Num(7)>>>>)>>>> ELSE <<>>))

\* finds of the filter {a, b} (in either key order), of {a} and of {}, and
\* aggregates of one pipeline, in two namespaces, with and without the rest
VariantStats ==
    {VariantRecord("db", "find", "filter", FilterAB, FALSE),
     VariantRecord("other", "find", "filter", FilterBA, TRUE),
     VariantRecord("other", "find", "filter", FilterA, TRUE),
     VariantRecord("db", "find", "filter", Doc(<<>>), FALSE),
     VariantRecord("db", "aggregate", "pipeline", PipelineA, FALSE),
     VariantRecord("other", "aggregate", "pipeline", PipelineA, TRUE)}

----------------------------------------------------------------------------
(* get_query_stats and the session of querystats-streamlit *)

\* the server a client is connected to, as far as get_query_stats sees it: its
\* internalQueryStatsRateLimit, the records $queryStats returns, and whether a
\* command fails
Server(rate_limit, docs, fails) == [rate_limit |-> rate_limit, docs |-> docs, fails |-> fails]

\* the namespaces of the records, each once, in the order they first occur
RECURSIVE NamespacesOf(_, _)
NamespacesOf(docs, seen) ==
    IF Len(docs) = 0 THEN seen
    ELSE LET cmdNs == Get(StatShape(Head(docs)), "cmdNs")
             namespace == Get(cmdNs, "db").v \o "." \o Get(cmdNs, "coll").v
         IN  NamespacesOf(Tail(docs),
                          IF InSeq(namespace, seen) THEN seen ELSE Append(seen, namespace))

\* the records of the namespace
DocsOf(docs, namespace) ==
    SelectSeq(docs, LAMBDA doc :
        LET cmdNs == Get(StatShape(doc), "cmdNs")
        IN  Get(cmdNs, "db").v \o "." \o Get(cmdNs, "coll").v = namespace)

\* as get_query_stats, but a rate limit of 0 is not reported
get_query_statsMutant(server) ==
    IF server.fails THEN None
    ELSE IF Len(server.docs) = 0 THEN Doc(<<<<"error", Str("empty_query_stats")>>>>)
    ELSE LET namespaces == NamespacesOf(server.docs, <<>>)
         IN  Doc([i \in 1..Len(namespaces) |->
                     <<namespaces[i], List(DocsOf(server.docs, namespaces[i]))>>])

\* get_query_stats: the error rate_limit_zero, the error empty_query_stats, the
\* records by namespace, or None when a command raised
get_query_stats(server) ==
    IF server.fails THEN None
    ELSE IF server.rate_limit = 0 THEN Doc(<<<<"error", Str("rate_limit_zero")>>>>)
    ELSE IF Len(server.docs) = 0 THEN Doc(<<<<"error", Str("empty_query_stats")>>>>)
    ELSE LET namespaces == NamespacesOf(server.docs, <<>>)
         IN  Doc([i \in 1..Len(namespaces) |->
                     <<namespaces[i], List(DocsOf(server.docs, namespaces[i]))>>])

\* isinstance(query_stats_result, dict) and "error" in query_stats_result
IsErrorResult(query_stats_result) ==
    IsDoc(query_stats_result) /\ HasKey(query_stats_result, "error")

\* st.session_state after main has initialized it, with what the page shows:
\* warning is the `sampling is disabled` warning.  last_result records what the
\* most recent call of get_query_stats returned ("never" before the first).
NewSession ==
    [connected |-> FALSE, connection_error |-> FALSE, query_stats_error |-> None,
     rate_limit |-> None, query_stats |-> None, mongodb_version |-> 0,
     client |-> 0, warning |-> FALSE, last_result |-> "never"]

\* what is recorded of a result of get_query_stats
ResultKind(query_stats_result) ==
    IF IsErrorResult(query_stats_result) THEN Get(query_stats_result, "error").v
    ELSE IF IsDoc(query_stats_result) THEN "query_stats"
    ELSE "None"

\* the rest of main after connection_dialog: the warning is shown when
\* st.session_state.rate_limit == 0
Render(session) == [session EXCEPT !.warning = (session.rate_limit = Num(0))]

\* the handler of the Connect button.  uri_ok: MongoClient takes the connection
\* string; server_ok: the server answers server_info; version and
\* internalQueryStatsRateLimit are the server's
Connect(session, uri_ok, server_ok, version, server) ==
    IF ~uri_ok THEN
        [session EXCEPT !.connected = FALSE, !.connection_error = TRUE]
    ELSE IF ~server_ok THEN
        [session EXCEPT !.client = server.rate_limit,
                        !.connected = FALSE, !.connection_error = TRUE]
    ELSE
        LET query_stats_result == get_query_stats(server)
            s1 == [session EXCEPT !.client = server.rate_limit,
                                  !.mongodb_version = version,
                                  !.connected = TRUE, !.connection_error = FALSE,
                                  !.last_result = ResultKind(query_stats_result)]
        IN  IF IsErrorResult(query_stats_result) THEN
                [s1 EXCEPT !.query_stats_error = Get(query_stats_result, "error"),
                           !.query_stats = None,
                           !.rate_limit =
                               IF Get(query_stats_result, "error") = Str("rate_limit_zero")
                               THEN Num(0) ELSE @]
            ELSE [s1 EXCEPT !.query_stats = query_stats_result,
                            !.query_stats_error = None,
                            !.rate_limit = None]

\* the handler of the Set Rate Limit button.  command_ok: setParameter succeeds,
\* and the server then has new_rate_limit; docs and fails are what
\* get_query_stats then meets
SetRateLimit(session, command_ok, new_rate_limit, docs, fails) ==
    IF ~command_ok THEN session
    ELSE
        LET query_stats_result == get_query_stats(Server(new_rate_limit, docs, fails))
            s1 == [session EXCEPT !.client = new_rate_limit,
                                  !.last_result = ResultKind(query_stats_result)]
        IN  IF IsErrorResult(query_stats_result) THEN
                [s1 EXCEPT !.query_stats_error = Get(query_stats_result, "error"),
                           !.query_stats = None]
            ELSE [s1 EXCEPT !.query_stats = query_stats_result,
                            !.query_stats_error = None,
                            !.rate_limit = None]

\* what $queryStats returns: nothing, one record, records of two namespaces
ServerDocs ==
    {<<>>, <<StatRecord("find", "filter", FilterAB)>>,
     <<StatRecord("find", "filter", FilterAB),
       VariantRecord("other", "aggregate", "pipeline", PipelineA, TRUE)>>}

ServerRateLimits == {0, 100}

NewRateLimits == {1, 100}

----------------------------------------------------------------------------
(* Calls *)

NoCall == [fn |-> "none", args |-> <<>>, ret |-> None]

Init == call = NoCall /\ prev = NoCall

\* a call made for a fresh analysis request
Made(fn, args, ret) ==
    /\ call = NoCall
    /\ call' = [fn |-> fn, args |-> args, ret |-> ret]
    /\ prev' = NoCall

\* a call made after the last one, which is kept for comparison
MadeAfter(fn, args, ret) ==
    /\ call' = [fn |-> fn, args |-> args, ret |-> ret]
    /\ prev' = call

\* the request is over: its values are dropped
Return ==
    /\ call # NoCall
    /\ call' = NoCall
    /\ prev' = NoCall

CallGetPlanStages ==
    \E plan \in Plans \cup CursorPlans \cup OtherPlans : Made("get_plan_stages", <<plan>>, get_plan_stages(plan))

NextPlan == CallGetPlanStages \/ Return

SpecPlan == Init /\ [][NextPlan]_vars

CallSuggestIndex ==
    \E filter_doc \in Filters, sort_doc \in Sorts :
        Made("suggest_index", <<filter_doc, sort_doc>>, suggest_index(filter_doc, sort_doc))

NextIndex == CallSuggestIndex \/ Return

SpecIndex == Init /\ [][NextIndex]_vars

CallCreateRepresentativeQuery ==
    \E query_doc \in QueryDocs :
        Made("create_representative_query", <<query_doc>>,
             create_representative_query(query_doc))

\* the builder applied to its own output
CallCreateRepresentativeQueryAgain ==
    /\ call.fn = "create_representative_query"
    /\ prev = NoCall
    /\ MadeAfter("create_representative_query", <<call.ret>>,
                 create_representative_query(call.ret))

NextRep == CallCreateRepresentativeQuery \/ CallCreateRepresentativeQueryAgain \/ Return

SpecRep == Init /\ [][NextRep]_vars

CallHashQueryShape ==
    \E query_shape \in HashShapes :
        Made("hash_query_shape", <<query_shape>>, hash_query_shape(query_shape))

\* a second shape is hashed, and the first digest is kept to compare
CallHashQueryShapeNext ==
    /\ call.fn = "hash_query_shape"
    /\ prev = NoCall
    /\ \E query_shape \in HashShapes :
           MadeAfter("hash_query_shape", <<query_shape>>, hash_query_shape(query_shape))

NextHash == CallHashQueryShape \/ CallHashQueryShapeNext \/ Return

SpecHash == Init /\ [][NextHash]_vars

CallCorrelateQueries ==
    \E query_stats \in StatLists, query_settings \in SettingLists :
        Made("correlate_queries", <<query_stats, query_settings>>,
             correlate_queries(query_stats, query_settings))

\* the records of the commands correlate_queries supports
SupportedStats(query_stats) ==
    SelectSeq(query_stats,
              LAMBDA stat : Get(StatShape(stat), "command") \in {Str("find"), Str("aggregate")})

\* the same settings are correlated with the stats list without the records of
\* unsupported commands, and the first result is kept to compare
CallCorrelateQueriesSupported ==
    /\ call.fn = "correlate_queries"
    /\ prev = NoCall
    /\ LET query_stats == List(SupportedStats(call.args[1].v))
       IN  MadeAfter("correlate_queries", <<query_stats, call.args[2]>>,
                     correlate_queries(query_stats, call.args[2]))

NextCorr == CallCorrelateQueries \/ CallCorrelateQueriesSupported \/ Return

SpecCorr == Init /\ [][NextCorr]_vars

CallCreateRejectionFilter ==
    \E query_shape \in RejShapes :
        LET rep_query == RepQueryOf(query_shape)
        IN  Made("create_rejection_filter", <<query_shape, rep_query>>,
                 create_rejection_filter(query_shape, rep_query))

NextRej == CallCreateRejectionFilter \/ Return

SpecRej == Init /\ [][NextRej]_vars

CallTransformToMongosh ==
    \E query \in ShellQueries :
        Made("transform_to_mongosh", <<query>>, transform_to_mongosh(query))

\* the transformed query is serialized, as create_rejection_filter does
CallStringifyForMongosh ==
    /\ call.fn = "transform_to_mongosh"
    /\ prev = NoCall
    /\ \E indent \in {0, 2} :
           MadeAfter("stringify_for_mongosh", <<call.ret, Num(indent)>>,
                     Str(stringify_for_mongosh(call.ret, indent)))

NextShell == CallTransformToMongosh \/ CallStringifyForMongosh \/ Return

SpecShell == Init /\ [][NextShell]_vars

CallHasCollscan ==
    \E stages \in StageLists : Made("has_collscan", <<stages>>, has_collscan(stages))

NextScan == CallHasCollscan \/ Return

SpecScan == Init /\ [][NextScan]_vars

CallCorrelateQueriesMalformed ==
    \E query_stats \in MalformedStatLists, query_settings \in SettingLists :
        Made("correlate_queries", <<query_stats, query_settings>>,
             correlate_queries(query_stats, query_settings))

NextMalformed == CallCorrelateQueriesMalformed \/ CallCreateRejectionFilter \/ Return

SpecMalformed == Init /\ [][NextMalformed]_vars

\* the record of $queryStats as display_query_stat is given it: its dicts and
\* lists are objects of the store
StoredEntries == {Store(<<>>, EntryOf(shape)) : shape \in StoreShapes}

\* entry['key']['queryShape']
QueryShapeOf(h, entry) == Get(h[Get(h[entry.v], "key").v], "queryShape")

\* query_shape.get('filter', {}) of a find, query_shape.get('pipeline', []) of an
\* aggregate; the shapes here have the entry
ShapeQueryOf(h, query_shape) ==
    IF Get(h[query_shape.v], "command") = Str("find")
    THEN Get(h[query_shape.v], "filter")
    ELSE Get(h[query_shape.v], "pipeline")

\* the stages of a pipeline that have a $match
MatchStages(h, pipeline) ==
    SelectSeq(h[pipeline.v].v, LAMBDA stage : HasKey(h[stage.v], "$match"))

\* filter_doc of display_query_stat: the filter of a find, the first $match of
\* an aggregate, {} when it has none
FilterDocOf(h, query_shape) ==
    IF Get(h[query_shape.v], "command") = Str("find")
    THEN [h |-> h, r |-> Get(h[query_shape.v], "filter")]
    ELSE LET stages == MatchStages(h, Get(h[query_shape.v], "pipeline"))
         IN  IF Len(stages) = 0 THEN Alloc(h, Doc(<<>>))
             ELSE [h |-> h, r |-> Get(h[Head(stages).v], "$match")]

\* a call on objects of the store: args is the store before the call and the
\* arguments, ret the store after it and the value returned
StoreCallSimplifyFilter ==
    \E entry \in StoredEntries :
        LET filter_doc == FilterDocOf(entry.h, QueryShapeOf(entry.h, entry.r))
        IN  Made("store:simplify_filter", <<filter_doc.h, filter_doc.r>>,
                 simplify_filter_h(filter_doc.h, filter_doc.r))

StoreCallSuggestIndex ==
    \E entry \in StoredEntries :
        LET query_shape == QueryShapeOf(entry.h, entry.r)
            filter_doc == FilterDocOf(entry.h, query_shape)
            sort == GetOr(entry.h[query_shape.v], "sort", None)
        IN  Made("store:suggest_index", <<filter_doc.h, filter_doc.r, sort>>,
                 suggest_index_h(filter_doc.h, filter_doc.r, sort))

StoreCallHashQueryShape ==
    \E entry \in StoredEntries :
        LET query == ShapeQueryOf(entry.h, QueryShapeOf(entry.h, entry.r))
        IN  Made("store:hash_query_shape", <<entry.h, query>>,
                 hash_query_shape_h(entry.h, query))

StoreCallCreateRepresentativeQuery ==
    \E entry \in StoredEntries :
        LET query_shape == QueryShapeOf(entry.h, entry.r)
            query == ShapeQueryOf(entry.h, query_shape)
        IN  Made("store:create_representative_query", <<entry.h, query, query_shape>>,
                 create_representative_query_h(entry.h, query))

\* transform_to_mongosh and create_rejection_filter are given the
\* representative query that was just made
StoreCallTransformToMongosh ==
    /\ call # NoCall
    /\ call.fn = "store:create_representative_query"
    /\ MadeAfter("store:transform_to_mongosh", <<call.ret.h, call.ret.r>>,
                 transform_h(call.ret.h, call.ret.r))

StoreCallCreateRejectionFilter ==
    /\ call # NoCall
    /\ call.fn = "store:create_representative_query"
    /\ MadeAfter("store:create_rejection_filter",
                 <<call.ret.h, call.args[3], call.ret.r>>,
                 create_rejection_filter_h(call.ret.h, call.args[3], call.ret.r))

\* query_stats and query_settings as get_query_stats and get_query_settings
\* return them
StoreCallCorrelateQueries ==
    \E stats \in StatLists,
       settings \in {List(xs) : xs \in SeqsUpTo(SettingRecords, MaxSettings)} :
        \E query_stats \in {Store(<<>>, stats)} :
            \E query_settings \in {Store(query_stats.h, settings)} :
                Made("store:correlate_queries",
                     <<query_settings.h, query_stats.r, query_settings.r>>,
                     correlate_queries_h(query_settings.h, query_stats.r,
                                         query_settings.r))

NextStore ==
    \/ StoreCallSimplifyFilter
    \/ StoreCallSuggestIndex
    \/ StoreCallHashQueryShape
    \/ StoreCallCreateRepresentativeQuery
    \/ StoreCallTransformToMongosh
    \/ StoreCallCreateRejectionFilter
    \/ StoreCallCorrelateQueries
    \/ Return

SpecStore == Init /\ [][NextStore]_vars

CallGetPlanStagesPriority ==
    \E plan \in PriorityPlans :
        Made("get_plan_stages", <<plan>>, get_plan_stages(plan))

NextPriority == CallGetPlanStagesPriority \/ Return

SpecPriority == Init /\ [][NextPriority]_vars

CallSimplifyFilter ==
    \E filter_doc \in Filters \cup OperatorFilters :
        Made("simplify_filter", <<filter_doc>>, simplify_filter(filter_doc))

NextSimplify == CallSimplifyFilter \/ Return

SpecSimplify == Init /\ [][NextSimplify]_vars

\* main correlates the stats of the selected namespace with its settings
CallCorrelateQueriesNamespace ==
    \E query_stats \in NamespaceStats, debug_shapes \in SettingLists :
        Made("correlate_queries", <<query_stats, debug_shapes>>,
             correlate_queries(query_stats, debug_shapes))

\* and display_query_stat is called for each pair; for the mongodb_version the
\* session has, show_rejection_filter is mongodb_version >= 8
CallDisplayQueryStat ==
    /\ call.fn = "correlate_queries"
    /\ IsList(call.ret)
    /\ \E i \in 1..Len(call.ret.v), plan \in DisplayPlans, mongodb_version \in {7, 8} :
          LET entry == Get(call.ret.v[i], "query_stat")
              matching_setting == Get(call.ret.v[i], "query_setting")
          IN  MadeAfter("display_query_stat",
                        <<plan, entry, matching_setting, mongodb_version >= 8>>,
                        display_query_stat(plan, entry, matching_setting,
                                           mongodb_version >= 8))

NextDisplay == CallCorrelateQueriesNamespace \/ CallDisplayQueryStat \/ Return

SpecDisplay == Init /\ [][NextDisplay]_vars

\* two records of VariantStats are correlated with the settings
CallCorrelateQueriesVariants ==
    \E first \in VariantStats, second \in VariantStats, query_settings \in SettingLists :
        Made("correlate_queries", <<List(<<first, second>>), query_settings>>,
             correlate_queries(List(<<first, second>>), query_settings))

\* and then the same two records, in the other order, with the same settings
CallCorrelateQueriesReversed ==
    /\ call.fn = "correlate_queries"
    /\ prev = NoCall
    /\ Len(call.args[1].v) = 2
    /\ LET query_stats == List(<<call.args[1].v[2], call.args[1].v[1]>>)
       IN  MadeAfter("correlate_queries", <<query_stats, call.args[2]>>,
                     correlate_queries(query_stats, call.args[2]))

NextPair == CallCorrelateQueriesVariants \/ CallCorrelateQueriesReversed \/ Return

SpecPair == Init /\ [][NextPair]_vars

\* the session the page is in: the one the last run left, a new one at first
SessionOf(c) == IF c.ret.t = "session" THEN c.ret.v ELSE NewSession

\* a run of the page: args says what the user did and what the server answered,
\* ret is the session after the run
Ran(fn, args, session) ==
    /\ call' = [fn |-> fn, args |-> args, ret |-> [t |-> "session", v |-> session]]
    /\ prev' = call

InSession == call = NoCall \/ call.ret.t = "session"

\* the user presses Connect
RunConnect ==
    /\ InSession
    /\ \E uri_ok \in BOOLEAN, server_ok \in BOOLEAN, version \in {7, 8},
          rate_limit \in ServerRateLimits, docs \in ServerDocs, fails \in BOOLEAN :
          LET server == Server(rate_limit, docs, fails)
              result == IF uri_ok /\ server_ok
                        THEN ResultKind(get_query_stats(server)) ELSE "not called"
          IN  Ran("Connect", <<result>>,
                  Render(Connect(SessionOf(call), uri_ok, server_ok, version, server)))

\* the user presses Set Rate Limit, which the page has only below the warning;
\* the warning of this run was shown before the handler ran
RunSetRateLimit ==
    /\ InSession
    /\ SessionOf(call).rate_limit = Num(0)
    /\ \E command_ok \in BOOLEAN, new_rate_limit \in NewRateLimits,
          docs \in ServerDocs, fails \in BOOLEAN :
          LET result == IF command_ok
                        THEN ResultKind(get_query_stats(
                                 Server(new_rate_limit, docs, fails)))
                        ELSE "not called"
          IN  Ran("Set Rate Limit", <<result>>,
                  SetRateLimit(Render(SessionOf(call)), command_ok, new_rate_limit,
                               docs, fails))

\* the page runs again with no button pressed
RunAgain ==
    /\ InSession
    /\ call # NoCall
    /\ Ran("rerun", <<"not called">>, Render(SessionOf(call)))

NextSession == RunConnect \/ RunSetRateLimit \/ RunAgain \/ Return

SpecSession == Init /\ [][NextSession]_vars

\* every function, called in any order
Next ==
    NextPlan \/ NextIndex \/ NextRep \/ NextHash \/ NextCorr \/ NextRej \/ NextShell \/ NextScan
        \/ NextMalformed
        \/ NextStore
        \/ NextPriority
        \/ NextSimplify
        \/ NextDisplay
        \/ NextPair
        \/ NextSession

Spec == Init /\ [][Next]_vars

----------------------------------------------------------------------------
(* Properties of get_plan_stages *)

\* the stage names of a chain, deepest first
LeafToRoot(names) == [i \in 1..Len(names) |-> Str(names[Len(names) + 1 - i])]

\* C1: for a linear chain S1 -> ... -> Sn linked by inputStage (S1 outermost),
\* bare or wrapped in queryPlanner/winningPlan/queryPlan layers, get_plan_stages
\* returns exactly [Sn, ..., S1].
C1_LinearChainLeafToRoot ==
    call.fn = "get_plan_stages" =>
        \A names \in ChainNames :
            call.args[1] \in {ChainOf(names)} \cup Wrapped({ChainOf(names)})
                => call.ret = List(LeafToRoot(names))

C1_Witness ==
    /\ call.fn = "get_plan_stages"
    /\ call.args[1] = Wrap("queryPlanner", Wrap("winningPlan",
                          ChainOf(<<"FETCH", "IXSCAN", "COLLSCAN">>)))
    /\ call.ret = List(<<Str("COLLSCAN"), Str("IXSCAN"), Str("FETCH")>>)

\* a stage node whose children are listed under inputStages: it has `stage` and
\* `inputStages`, and neither `inputStage` nor a wrapper key, which take priority
IsFanInNode(p) ==
    /\ IsDoc(p) /\ HasKey(p, "stage") /\ HasKey(p, "inputStages")
    /\ IsList(Get(p, "inputStages"))
    /\ ~HasKey(p, "inputStage")
    /\ \A k \in WrapKeys : ~HasKey(p, k)

\* flatten(ck) ++ ... ++ flatten(c1), each flatten(ci) being get_plan_stages(ci)
KidsLastFirst(kids) ==
    Flatten([i \in 1..Len(kids) |-> get_plan_stages(kids[Len(kids) + 1 - i]).v])

\* C2: for a stage node P with inputStages = [c1, ..., ck], get_plan_stages(P)
\* is flatten(ck) ++ ... ++ flatten(c1) ++ [P.stage].
C2_FanInOrder ==
    (call.fn = "get_plan_stages" /\ IsFanInNode(call.args[1])) =>
        call.ret = List(KidsLastFirst(Get(call.args[1], "inputStages").v)
                        \o <<Get(call.args[1], "stage")>>)

C2_Witness ==
    /\ call.fn = "get_plan_stages"
    /\ call.args[1] = FanIn("SORT_MERGE",
            <<ChainOf(<<"FETCH", "IXSCAN">>),
              FanIn("OR", <<StageNode("IXSCAN"), ChainOf(<<"FETCH", "COLLSCAN">>)>>)>>)
    /\ call.ret = List(<<Str("COLLSCAN"), Str("FETCH"), Str("IXSCAN"), Str("OR"),
                         Str("IXSCAN"), Str("FETCH"), Str("SORT_MERGE")>>)

----------------------------------------------------------------------------
(* Properties of suggest_index *)

\* the (field, tag) pairs extract_fields yields for the simplified filter
PairsOf(filter_doc) == extract_fields(simplify_filter(filter_doc))

\* the fields the pairs name
FieldsIn(pairs) == {pairs[i][1] : i \in 1..Len(pairs)}

\* the tag of the first pair that names the field
FirstTag(pairs, f) ==
    pairs[CHOOSE i \in 1..Len(pairs) :
              pairs[i][1] = f /\ \A j \in 1..(i - 1) : pairs[j][1] # f][2]

\* 1 for an equality field, 2 for a sort-only field, 3 for a range field
Rank(pairs, f) ==
    IF f \notin FieldsIn(pairs) THEN 2
    ELSE IF FirstTag(pairs, f) = Str("$eq") THEN 1
    ELSE 3

SortKeys(sort_doc) ==
    IF IsDoc(sort_doc) THEN {sort_doc.v[i][1] : i \in 1..Len(sort_doc.v)} ELSE {}

\* C3: the keys of the suggested index are the filter's and the sort's fields, each
\* once, every value 1, equality fields before sort-only fields before range fields.
C3_EqualitySortRange ==
    call.fn = "suggest_index" =>
        LET pairs == PairsOf(call.args[1])
            sort_doc == call.args[2]
            idx == call.ret
            rank == [i \in 1..Len(idx.v) |-> Rank(pairs, idx.v[i][1])]
        IN  /\ IsDoc(idx)
            /\ {idx.v[i][1] : i \in 1..Len(idx.v)} = FieldsIn(pairs) \cup SortKeys(sort_doc)
            /\ \A i, j \in 1..Len(idx.v) : i # j => idx.v[i][1] # idx.v[j][1]
            /\ \A i \in 1..Len(idx.v) : idx.v[i][2] = Num(1)
            /\ \A i, j \in 1..Len(idx.v) : i < j => rank[i] <= rank[j]

C3_Witness ==
    /\ call.fn = "suggest_index"
    /\ call.args = <<Doc(<<<<"a", Str("?number")>>, <<"b", Gt>>>>),
                     Doc(<<<<"c", Num(1)>>>>)>>
    /\ call.ret = Doc(<<<<"a", Num(1)>>, <<"c", Num(1)>>, <<"b", Num(1)>>>>)

\* the empty filter with an absent sort gives the empty suggestion
C3_EmptyWitness ==
    /\ call.fn = "suggest_index"
    /\ call.args = <<Doc(<<>>), None>>
    /\ call.ret = Doc(<<>>)

\* C4 as stated: a filter field is in the equality group exactly when some pair
\* extract_fields yields for it has the tag $eq; every other filter field is in
\* the range group; no field is in both.
C4_EqualityIffSomeEqPair ==
    call.fn = "suggest_index" =>
        LET pairs == PairsOf(call.args[1])
            g == FieldGroups(call.args[1])
        IN  \A f \in FieldsIn(pairs) :
                /\ InSeq(f, g.equality_fields)
                       <=> \E i \in 1..Len(pairs) : pairs[i] = <<f, Str("$eq")>>
                /\ InSeq(f, g.range_fields) <=> ~InSeq(f, g.equality_fields)

\* C4 amended: a filter field is in the equality group exactly when the first
\* pair extract_fields yields for it has the tag $eq; every other filter field is
\* in the range group; no field is in both.
C4_EqualityIffFirstPairEq ==
    call.fn = "suggest_index" =>
        LET pairs == PairsOf(call.args[1])
            g == FieldGroups(call.args[1])
        IN  \A f \in FieldsIn(pairs) :
                /\ InSeq(f, g.equality_fields) <=> FirstTag(pairs, f) = Str("$eq")
                /\ InSeq(f, g.range_fields) <=> ~InSeq(f, g.equality_fields)

\* the same field in two $and branches, first as a range, then as an equality
C4_Witness ==
    /\ call.fn = "suggest_index"
    /\ call.args[1] = Doc(<<<<"$and", List(<<Doc(<<<<"a", Gt>>>>),
                                            Doc(<<<<"a", Str("?number")>>>>)>>)>>>>)
    /\ call.ret = Doc(<<<<"a", Num(1)>>>>)
    /\ FieldGroups(call.args[1]) = [equality_fields |-> <<>>, range_fields |-> <<"a">>]

----------------------------------------------------------------------------
(* Properties of create_representative_query *)

\* the representative literal of a scalar placeholder ?T
ScalarLiteral(ty) ==
    CASE ty = "number" -> Num(1)
      [] ty = "string" -> Str("a")
      [] ty = "bool" -> Bool(TRUE)
      [] ty = "null" -> None
      [] ty = "object" -> Doc(<<<<"a", Num(1)>>>>)
      [] ty = "date" -> Doc(<<<<"$date", Str("2024-01-01T00:00:00.000Z")>>>>)
      [] ty = "objectId" -> Doc(<<<<"$oid", Str("000000000000000000000000")>>>>)
      [] ty = "binData" ->
            Doc(<<<<"$binary", Doc(<<<<"base64", Str("YQ==")>>, <<"subType", Str("00")>>>>)>>>>)
      [] ty = "timestamp" ->
            Doc(<<<<"$timestamp", Doc(<<<<"t", Num(1677749825)>>, <<"i", Num(20)>>>>)>>>>)
      [] ty = "minKey" -> Doc(<<<<"$minKey", Num(1)>>>>)
      [] ty = "maxKey" -> Doc(<<<<"$maxKey", Num(1)>>>>)

\* the literal the grammar gives a token: ?T -> representative of T,
\* ?array<> -> ["a", 1], ?array<?T> -> [representative of T]
GrammarLiteral(tok) ==
    IF tok = "?array<>" THEN List(<<Str("a"), Num(1)>>)
    ELSE IF \E ty \in ScalarTypes : tok = "?" \o ty
    THEN ScalarLiteral(CHOOSE ty \in ScalarTypes : tok = "?" \o ty)
    ELSE List(<<ScalarLiteral(CHOOSE ty \in ScalarTypes : tok = "?array<?" \o ty \o ">")>>)

RECURSIVE IsRepresentativeOf(_, _)
\* y has the structure of x (same keys, same sequence lengths and order) and holds
\* the representative literal wherever x holds a placeholder of the grammar, as a
\* field value or as a sequence element; what is no placeholder is kept
IsRepresentativeOf(y, x) ==
    CASE x.t = "doc" ->
            /\ y.t = "doc" /\ Len(y.v) = Len(x.v)
            /\ \A i \in 1..Len(x.v) :
                   y.v[i][1] = x.v[i][1] /\ IsRepresentativeOf(y.v[i][2], x.v[i][2])
      [] x.t = "list" ->
            /\ y.t = "list" /\ Len(y.v) = Len(x.v)
            /\ \A i \in 1..Len(x.v) : IsRepresentativeOf(y.v[i], x.v[i])
      [] x.t = "str" ->
            IF x.v \in GrammarTokens THEN y = GrammarLiteral(x.v)
            ELSE IF StartsWith(x.v, "?") THEN TRUE
            ELSE y = x
      [] OTHER -> y = x

\* C5: create_representative_query returns a value of identical structure in which
\* every placeholder of the grammar is replaced by its representative literal, as a
\* document field value or as an element of a sequence, at any depth.
C5_EveryPlaceholderReplaced ==
    call.fn = "create_representative_query" =>
        IsRepresentativeOf(call.ret, call.args[1])

\* C6: create_representative_query applied to its own result returns that result.
C6_Idempotent ==
    (/\ call.fn = "create_representative_query"
     /\ prev.fn = "create_representative_query"
     /\ call.args = <<prev.ret>>) => call.ret = prev.ret

C6_Witness ==
    /\ call.fn = "create_representative_query"
    /\ prev.fn = "create_representative_query"
    /\ prev.args = <<Doc(<<<<"n", Doc(<<<<"a", Str("?object")>>, <<"b", Str("?regex")>>>>)>>>>)>>
    /\ prev.ret # prev.args[1]
    /\ call.args = <<prev.ret>>
    /\ call.ret = prev.ret

\* the literal of a token the builder matches
TokenLiteral(tok) ==
    IF tok = "?array<?array>" THEN List(<<List(<<Str("a")>>)>>) ELSE GrammarLiteral(tok)

RECURSIVE FieldTokensReplaced(_, _, _)
\* in y, every document field that holds in x a string starting with `?` holds the
\* token's literal when the token is one of `tokens`, and the string itself otherwise
FieldTokensReplaced(y, x, tokens) ==
    CASE x.t = "doc" ->
            /\ y.t = "doc" /\ Len(y.v) = Len(x.v)
            /\ \A i \in 1..Len(x.v) :
                   LET xv == x.v[i][2]
                       yv == y.v[i][2]
                   IN  IF xv.t = "str" /\ StartsWith(xv.v, "?")
                       THEN yv = (IF xv.v \in tokens THEN TokenLiteral(xv.v) ELSE xv)
                       ELSE FieldTokensReplaced(yv, xv, tokens)
      [] x.t = "list" ->
            /\ y.t = "list" /\ Len(y.v) = Len(x.v)
            /\ \A i \in 1..Len(x.v) : FieldTokensReplaced(y.v[i], x.v[i], tokens)
      [] OTHER -> TRUE

\* C7 as stated: a field's token is replaced by exact match against the grammar
\* (?T, ?array<>, ?array<?T>); any other string starting with `?` is returned
\* unchanged.
C7_GrammarOrUnchanged ==
    call.fn = "create_representative_query" =>
        FieldTokensReplaced(call.ret, call.args[1], GrammarTokens)

\* C7 amended: a field's token is replaced by exact match against the grammar
\* extended with ?array<?array> -> [["a"]]; any other string starting with `?` is
\* returned unchanged.
C7_ExtendedGrammarOrUnchanged ==
    call.fn = "create_representative_query" =>
        FieldTokensReplaced(call.ret, call.args[1], GrammarTokens \cup {"?array<?array>"})

C7_Witness ==
    /\ call.fn = "create_representative_query"
    /\ call.args = <<Doc(<<<<"a", Str("?array<?binData>")>>, <<"b", Str("?regex")>>>>)>>
    /\ call.ret = Doc(<<<<"a", List(<<BinaryLiteral>>)>>, <<"b", Str("?regex")>>>>)

----------------------------------------------------------------------------
(* Properties of hash_query_shape *)

\* a string scalar that starts with `?`
IsPlaceholder(x) == x.t = "str" /\ StartsWith(x.v, "?")

RECURSIVE SameTypeErased(_, _)
\* x and y have the same structure and types: documents with the same field names
\* (in any order) and like values, sequences of the same length with like elements
\* in the same order, the same placeholder token, or two non-placeholder scalars
\* of the same runtime type
SameTypeErased(x, y) ==
    CASE x.t = "doc" ->
            /\ y.t = "doc" /\ Len(y.v) = Len(x.v)
            /\ \A i \in 1..Len(x.v) :
                   /\ HasKey(y, x.v[i][1])
                   /\ SameTypeErased(x.v[i][2], Get(y, x.v[i][1]))
      [] x.t = "list" ->
            /\ y.t = "list" /\ Len(y.v) = Len(x.v)
            /\ \A i \in 1..Len(x.v) : SameTypeErased(x.v[i], y.v[i])
      [] OTHER ->
            /\ y.t \notin {"doc", "list"}
            /\ IF IsPlaceholder(x) \/ IsPlaceholder(y) THEN x = y ELSE x.t = y.t

\* two shapes hashed one after the other
TwoHashes == call.fn = "hash_query_shape" /\ prev.fn = "hash_query_shape"

\* C8: two shapes that differ only in the order of keys inside documents and in
\* the value of non-placeholder scalars of the same runtime type get the same
\* digest.
C8_SameStructureSameDigest ==
    (TwoHashes /\ SameTypeErased(prev.args[1], call.args[1])) => call.ret = prev.ret

C8_Witness ==
    /\ TwoHashes
    /\ prev.args = <<Doc(<<<<"a", Num(1)>>, <<"b", Str("x")>>>>)>>
    /\ call.args = <<Doc(<<<<"b", Str("x")>>, <<"a", Num(2)>>>>)>>
    /\ call.ret = prev.ret

\* C9: two shapes that differ in a field name, in field presence, in nesting, in
\* a sequence's length or order, in a placeholder token or in the runtime type of
\* a non-placeholder scalar are serialized to different texts, and so get
\* different digests.
C9_DifferentStructureDifferentText ==
    (TwoHashes /\ ~SameTypeErased(prev.args[1], call.args[1])) =>
        /\ call.ret.v # prev.ret.v
        /\ call.ret # prev.ret

\* a field name that holds quotes against the two fields it reads like
C9_Witness ==
    /\ TwoHashes
    /\ prev.args = <<Doc(<<<<QuoteKey, Num(1)>>>>)>>
    /\ call.args = <<Doc(<<<<"a", Num(1)>>, <<"b", Num(2)>>>>)>>
    /\ call.ret.v = "{\"a\": \"int\", \"b\": \"int\"}"
    /\ call.ret # prev.ret

\* C10: two query shapes that carry the same filter and different commands get
\* different digests.
C10_CommandChangesDigest ==
    (/\ TwoHashes
     /\ HasKey(prev.args[1], "command") /\ HasKey(call.args[1], "command")
     /\ Get(prev.args[1], "command") # Get(call.args[1], "command")
     /\ GetOr(prev.args[1], "filter", None) = GetOr(call.args[1], "filter", None))
        => call.ret # prev.ret

----------------------------------------------------------------------------
(* correlate_queries: claims *)

\* the pair made of a stats record and the setting found for it
PairOf(stat, setting) == Doc(<<<<"query_stat", stat>>, <<"query_setting", setting>>>>)

\* the filter or pipeline a settings record carries
ShapeOfSetting(setting) ==
    LET debug_shape == Get(setting, "debugQueryShape")
    IN  IF HasKey(debug_shape, "filter") THEN Get(debug_shape, "filter")
        ELSE Get(debug_shape, "pipeline")

\* correlate_queries was given a sequence of settings records
Correlated == call.fn = "correlate_queries" /\ IsList(call.args[2])

\* the command of a stats record
CommandOf(stat) == Get(StatShape(stat), "command")

\* the settings records (by position) whose shape has the structure of a filter
MatchingSettings(filter, settings) ==
    {i \in 1..Len(settings) : SameTypeErased(filter, ShapeOfSetting(settings[i]))}

\* C11: given one `find` stats record, correlate_queries returns one pair; its
\* query_setting is the settings record when there is one settings record and its
\* filter has the structure of the stats record's filter (the empty filter
\* included), and it is absent when no settings record has that structure.
C11_MatchOrAbsent ==
    (/\ Correlated
     /\ Len(call.args[1].v) = 1
     /\ CommandOf(call.args[1].v[1]) = Str("find")) =>
        LET stat == call.args[1].v[1]
            settings == call.args[2].v
            matching == MatchingSettings(Get(StatShape(stat), "filter"), settings)
        IN  /\ (Len(settings) = 1 /\ matching = {1}) =>
                   call.ret = List(<<PairOf(stat, settings[1])>>)
            /\ matching = {} => call.ret = List(<<PairOf(stat, None)>>)

\* what the code keeps of C11: the same, for a stats record whose filter is not
\* empty
C11_NonEmptyFilterMatchOrAbsent ==
    (/\ Correlated
     /\ Len(call.args[1].v) = 1
     /\ CommandOf(call.args[1].v[1]) = Str("find")
     /\ Truthy(Get(StatShape(call.args[1].v[1]), "filter"))) =>
        LET stat == call.args[1].v[1]
            settings == call.args[2].v
            matching == MatchingSettings(Get(StatShape(stat), "filter"), settings)
        IN  /\ (Len(settings) = 1 /\ matching = {1}) =>
                   call.ret = List(<<PairOf(stat, settings[1])>>)
            /\ matching = {} => call.ret = List(<<PairOf(stat, None)>>)

\* the empty filter of a find is looked up, and the settings record of the empty
\* filter is not in the lookup
C11_EmptyFilterUnmatched ==
    /\ Correlated
    /\ call.args[1] = List(<<StatRecord("find", "filter", Doc(<<>>))>>)
    /\ call.args[2] = List(<<SettingRecord("find", "filter", Doc(<<>>), TRUE)>>)
    /\ call.ret = List(<<PairOf(call.args[1].v[1], None)>>)

\* a settings record is found for a filter with the same fields in another order
C11_MatchWitness ==
    /\ Correlated
    /\ call.args[1] = List(<<StatRecord("find", "filter", FilterAB)>>)
    /\ call.args[2] = List(<<SettingRecord("find", "filter", FilterBA, TRUE)>>)
    /\ call.ret = List(<<PairOf(call.args[1].v[1], call.args[2].v[1])>>)

\* C12, as claimed: the result has one pair per stats record, the i-th pair
\* holding the i-th record.
C12_OnePairPerStat ==
    call.fn = "correlate_queries" =>
        /\ IsList(call.ret)
        /\ Len(call.ret.v) = Len(call.args[1].v)
        /\ \A i \in 1..Len(call.ret.v) :
               Get(call.ret.v[i], "query_stat") = call.args[1].v[i]

\* C12: given a sequence of settings records and stats records that are all of
\* the command `find` or `aggregate`, the result has one pair per stats record,
\* the i-th pair holding the i-th record.
C12_OnePairPerSupportedStat ==
    (/\ Correlated
     /\ \A i \in 1..Len(call.args[1].v) :
            CommandOf(call.args[1].v[i]) \in {Str("find"), Str("aggregate")}) =>
        /\ IsList(call.ret)
        /\ Len(call.ret.v) = Len(call.args[1].v)
        /\ \A i \in 1..Len(call.ret.v) :
               Get(call.ret.v[i], "query_stat") = call.args[1].v[i]

C12_Witness ==
    /\ Correlated
    /\ call.args[1] = List(<<StatRecord("aggregate", "pipeline", PipelineA),
                             StatRecord("find", "filter", FilterAB)>>)
    /\ Len(call.ret.v) = 2
    /\ Get(call.ret.v[1], "query_stat") = StatRecord("aggregate", "pipeline", PipelineA)
    /\ Get(call.ret.v[2], "query_stat") = StatRecord("find", "filter", FilterAB)

\* C13: given a sequence of settings records, the records of the result are the
\* stats records of the commands `find` and `aggregate` in their input order, and
\* the result is the one the same call gives for the stats list without the
\* records of other commands.
C13_UnsupportedExcluded ==
    /\ Correlated =>
           /\ IsList(call.ret)
           /\ [i \in 1..Len(call.ret.v) |-> Get(call.ret.v[i], "query_stat")]
                  = SupportedStats(call.args[1].v)
    /\ (Correlated /\ prev.fn = "correlate_queries") => call.ret = prev.ret

C13_Witness ==
    /\ Correlated
    /\ prev.fn = "correlate_queries"
    /\ prev.args[1] = List(<<StatRecord("distinct", "query", FilterA),
                             StatRecord("find", "filter", FilterAB)>>)
    /\ call.args[1] = List(<<StatRecord("find", "filter", FilterAB)>>)
    /\ Len(call.ret.v) = 1
    /\ prev.ret = call.ret

----------------------------------------------------------------------------
(* create_rejection_filter, stringify_for_mongosh: claims *)

\* `sub in text`
Contains(text, sub) ==
    \E i \in 1..(Len(text) - Len(sub) + 1) : SubSeq(text, i, i + Len(sub) - 1) = sub

\* text.endswith(sub)
EndsWith(text, sub) ==
    Len(text) >= Len(sub) /\ SubSeq(text, Len(text) - Len(sub) + 1, Len(text)) = sub

\* create_rejection_filter returned a command text
Built == call.fn = "create_rejection_filter" /\ call.ret.t = "str"

\* the command text has the entry `key` in its setQuerySettings document: the
\* entries of that document are the lines indented by 6
HasEntry(text, key) == Contains(text, "\n      " \o JsonString(key) \o ": ")

\* C14: the setQuerySettings document of the command text has exactly one of the
\* entries `filter` and `pipeline`: `pipeline` when the representative query is a
\* sequence, `filter` when it is a document; it has `sort` only when the shape
\* has a sort; and the command has settings.reject = true.
C14_FilterXorPipeline ==
    Built =>
        LET text == call.ret.v
            hasFilter == HasEntry(text, "filter")
            hasPipeline == HasEntry(text, "pipeline")
        IN  /\ hasFilter # hasPipeline
            /\ hasPipeline <=> IsList(call.args[2])
            /\ hasFilter <=> IsDoc(call.args[2])
            /\ HasEntry(text, "sort") => HasKey(call.args[1], "sort")
            /\ Contains(text, "\n    \"settings\": {\n      \"reject\": true\n    }")

C14_Witness ==
    /\ Built
    /\ GetOr(call.args[1], "command", None) = Str("aggregate")
    /\ Len(call.args[2].v) = 2
    /\ HasEntry(call.ret.v, "pipeline")
    /\ ~HasEntry(call.ret.v, "filter")

\* a find with a sort: filter and sort are entered
C14_SortWitness ==
    /\ Built
    /\ GetOr(call.args[1], "command", None) = Str("find")
    /\ HasEntry(call.ret.v, "filter")
    /\ HasEntry(call.ret.v, "sort")

Stringified == call.fn = "stringify_for_mongosh" /\ IsDoc(call.args[1])

\* every value of the document is a scalar
IsFlat(obj) == \A i \in 1..Len(obj.v) : obj.v[i][2].t \notin {"doc", "list"}

\* a flat document with every key as a JSON string literal, a comma after every
\* entry but the last, the closing brace at the indent of the document
FlatDocumentText(obj, indent) ==
    JoinLines(<<"{">>
        \o [i \in 1..Len(obj.v) |->
               Spaces(indent + 2) \o JsonString(obj.v[i][1]) \o ": "
                   \o stringify_for_mongosh(obj.v[i][2], 0)
                   \o (IF i < Len(obj.v) THEN "," ELSE "")]
        \o <<Spaces(indent) \o "}">>)

\* the rendering of a document: every key as a JSON string literal
KeysQuoted(obj, indent, text) ==
    /\ ~Truthy(obj) => text = "{}"
    /\ Truthy(obj) =>
           /\ \A i \in 1..Len(obj.v) :
                  Contains(text, "\n" \o Spaces(indent + 2)
                                     \o JsonString(obj.v[i][1]) \o ": ")
           /\ EndsWith(text, "\n" \o Spaces(indent) \o "}")
           /\ ~EndsWith(text, ",\n" \o Spaces(indent) \o "}")
           /\ IsFlat(obj) => text = FlatDocumentText(obj, indent)

\* the key reads like a constructor call
IsSentinel(s) ==
    \/ StartsWith(s, "ISODate(") \/ StartsWith(s, "ObjectId(")
    \/ StartsWith(s, "BinData(") \/ StartsWith(s, "Timestamp(")
    \/ s = "MinKey()" \/ s = "MaxKey()"

\* C16: stringify_for_mongosh renders every key of a document as a JSON string
\* literal, whatever the key's text is; the entries are separated by commas with
\* no comma after the last; the empty document is rendered as {}.
C16_EveryKeyQuoted ==
    Stringified => KeysQuoted(call.args[1], call.args[2].v, call.ret.v)

\* what the code keeps of C16: the same, for a document none of whose keys reads
\* like a constructor call
C16_PlainKeysQuoted ==
    (/\ Stringified
     /\ \A i \in 1..Len(call.args[1].v) : ~IsSentinel(call.args[1].v[i][1])) =>
        KeysQuoted(call.args[1], call.args[2].v, call.ret.v)

\* a key that reads like a constructor call is not quoted
C16_SentinelKeyBare ==
    /\ Stringified
    /\ call.args[1] = Doc(<<<<"ISODate(k", Num(1)>>>>)
    /\ call.args[2] = Num(0)
    /\ call.ret.v = "{\n  ISODate(k: 1\n}"

\* the constructor call of each BSON literal of create_representative_query
ConstructorText(literal) ==
    CASE literal = DateLiteral -> "ISODate(\"2024-01-01T00:00:00.000Z\")"
      [] literal = OidLiteral -> "ObjectId(\"000000000000000000000000\")"
      [] literal = BinaryLiteral -> "BinData(0, \"YQ==\")"
      [] literal = TimestampLiteral -> "Timestamp(1677749825, 20)"
      [] literal = MinKeyLiteral -> "MinKey()"
      [] literal = MaxKeyLiteral -> "MaxKey()"

BsonLiterals ==
    {DateLiteral, OidLiteral, BinaryLiteral, TimestampLiteral, MinKeyLiteral,
     MaxKeyLiteral}

\* the text of a leaf: the constructor call of a BSON literal, bare; the JSON
\* string literal of a string that does not read like a constructor call
LeafText(x) == IF x \in BsonLiterals THEN ConstructorText(x) ELSE JsonString(x.v)

IsLeaf(x) == x \in BsonLiterals \/ (IsStr(x) /\ ~IsSentinel(x.v))

\* a query was transformed and the result serialized
Serialized == call.fn = "stringify_for_mongosh" /\ prev.fn = "transform_to_mongosh"

\* C17: a BSON literal of create_representative_query, alone, as a field value or
\* as an element of a sequence, is serialized after transform_to_mongosh as its
\* constructor call, without quotes; a string that does not read like a
\* constructor call is serialized as its JSON string literal.
C17_ConstructorsBare ==
    Serialized =>
        LET query == prev.args[1]
            indent == call.args[2].v
            text == call.ret.v
        IN  /\ IsLeaf(query) => text = LeafText(query)
            /\ (IsDoc(query) /\ query \notin BsonLiterals) =>
                   \A i \in 1..Len(query.v) :
                       IsLeaf(query.v[i][2]) =>
                           \E end \in {",\n", "\n"} :
                               Contains(text, "\n" \o Spaces(indent + 2)
                                   \o StringifyStr(query.v[i][1]) \o ": "
                                   \o LeafText(query.v[i][2]) \o end)
            /\ IsList(query) =>
                   \A i \in 1..Len(query.v) :
                       IsLeaf(query.v[i]) =>
                           \E end \in {",\n", "\n"} :
                               Contains(text, "\n" \o Spaces(indent + 2)
                                   \o LeafText(query.v[i]) \o end)

C17_Witness ==
    /\ Serialized
    /\ prev.args[1] = Doc(<<<<"d", DateLiteral>>, <<"o", OidLiteral>>>>)
    /\ call.args[2] = Num(0)
    /\ call.ret.v = "{\n  \"d\": ISODate(\"2024-01-01T00:00:00.000Z\"),\n  \"o\": "
                        \o "ObjectId(\"000000000000000000000000\")\n}"

\* the find shape on db.coll with the filter {status: "?string"} and no sort
StatusShape ==
    RejShape(<<<<"cmdNs", CmdNs>>>>, "find", "filter",
             Doc(<<<<"status", Str("?string")>>>>), None)

\* C18, as claimed: the text for StatusShape is wrapped as adminCommand(...) and
\* holds the filter entry with its field indented by 2 and its closing brace by 0.
C18_FilterEntryIndentedByTwo ==
    (Built /\ call.args[1] = StatusShape) =>
        /\ Contains(call.ret.v, "adminCommand(")
        /\ EndsWith(call.ret.v, ")")
        /\ Contains(call.ret.v, "\"filter\": {\n  \"status\": \"a\"\n}")
        /\ Contains(call.ret.v, "\"reject\": true")

\* C18: every command text is "db.adminCommand(", the serialized document and
\* ")" on lines of their own; the document opens at indent 0, closes at indent 2
\* and has its two entries at indent 4, and each deeper level is indented by 2
\* more with its closing brace at the indent of its entry; so the text for
\* StatusShape holds the filter entry at indent 6 with its field at indent 8 and
\* its closing brace at indent 6, and holds `"reject": true`.
C18_IndentedByNesting ==
    /\ Built =>
           /\ StartsWith(call.ret.v,
                  "db.adminCommand(\n{\n    \"setQuerySettings\": {\n      ")
           /\ EndsWith(call.ret.v,
                  "\n    },\n    \"settings\": {\n      \"reject\": true\n    }\n  }\n)")
    /\ (Built /\ call.args[1] = StatusShape) =>
           call.ret.v =
               "db.adminCommand(\n{\n    \"setQuerySettings\": {\n"
                   \o "      \"find\": \"coll\",\n      \"$db\": \"db\",\n"
                   \o "      \"filter\": {\n        \"status\": \"a\"\n      }\n"
                   \o "    },\n    \"settings\": {\n      \"reject\": true\n    }\n  }\n)"

C18_Witness ==
    /\ Built
    /\ call.args = <<StatusShape, Doc(<<<<"status", Str("a")>>>>)>>
    /\ Contains(call.ret.v, "\n      \"filter\": {\n        \"status\": \"a\"\n      }\n")
    /\ Contains(call.ret.v, "\"reject\": true")

----------------------------------------------------------------------------
(* has_collscan, get_plan_stages: claims *)

\* the stage names of ScanStageNames that hold the text COLLSCAN
CollscanNames == {"COLLSCAN", "XCOLLSCAN_Y"}

\* C19: has_collscan(stages) is true exactly when some entry of the stage-name
\* sequence holds the text COLLSCAN; it is false for the empty sequence and for
\* ["IXSCAN", "FETCH"].
C19_TrueIffSomeCollscan ==
    call.fn = "has_collscan" =>
        /\ call.ret = Bool(\E i \in 1..Len(call.args[1].v) :
                               call.args[1].v[i].v \in CollscanNames)
        /\ call.args[1] = List(<<>>) => call.ret = Bool(FALSE)
        /\ call.args[1] = List(<<Str("IXSCAN"), Str("FETCH")>>) => call.ret = Bool(FALSE)

\* the only entry that holds COLLSCAN holds it inside, after an entry that does not
C19_Witness ==
    /\ call.fn = "has_collscan"
    /\ call.args[1] = List(<<Str("COLLSCA"), Str("XCOLLSCAN_Y")>>)
    /\ call.ret = Bool(TRUE)

C19_FalseWitness ==
    /\ call.fn = "has_collscan"
    /\ call.args[1] = List(<<Str("IXSCAN"), Str("FETCH")>>)
    /\ call.ret = Bool(FALSE)

\* no stage structure is recognized in the plan: there is no plan, or the plan
\* is a document with none of the keys queryPlanner, winningPlan, queryPlan,
\* stage and without a `stages` array whose first element has `$cursor`
Unrecognized(plan) ==
    \/ plan = None
    \/ /\ IsDoc(plan)
       /\ \A k \in {"queryPlanner", "winningPlan", "queryPlan", "stage"} : ~HasKey(plan, k)
       /\ ~(/\ HasKey(plan, "stages")
            /\ IsList(Get(plan, "stages"))
            /\ Len(Get(plan, "stages").v) > 0
            /\ IsDoc(Get(plan, "stages").v[1])
            /\ HasKey(Get(plan, "stages").v[1], "$cursor"))

\* C20: get_plan_stages returns the empty sequence, and not the None of a
\* swallowed exception, for every plan in which no stage structure is recognized.
C20_UnrecognizedGivesEmpty ==
    (call.fn = "get_plan_stages" /\ Unrecognized(call.args[1])) => call.ret = List(<<>>)

\* a `stages` array with its `$cursor` in the second element
C20_Witness ==
    /\ call.fn = "get_plan_stages"
    /\ Unrecognized(call.args[1])
    /\ HasKey(call.args[1], "stages")
    /\ Len(Get(call.args[1], "stages").v) = 2
    /\ call.ret = List(<<>>)

\* a `stages` array with `$cursor` in its first element is recognized
C20_CursorWitness ==
    /\ call.fn = "get_plan_stages"
    /\ ~Unrecognized(call.args[1])
    /\ HasKey(call.args[1], "stages")
    /\ call.ret # List(<<>>)


----------------------------------------------------------------------------
(* Malformed input: claims *)

\* the stats record has its key.queryShape
WellFormedStat(stat) == StatShape(stat).t # "raise"

\* correlate_queries was given a stats record without key.queryShape
MalformedStats ==
    /\ call.fn = "correlate_queries"
    /\ \E i \in 1..Len(call.args[1].v) : ~WellFormedStat(call.args[1].v[i])

\* create_rejection_filter was given a shape without cmdNs
MalformedShape == call.fn = "create_rejection_filter" /\ ~HasKey(call.args[1], "cmdNs")

\* C21: given a stats record without key.queryShape and a sequence of settings
\* records, correlate_queries returns the sequence of pairs of the well-formed
\* find/aggregate records; given a shape without cmdNs, create_rejection_filter
\* returns a command text.
C21_PartialResult ==
    /\ (MalformedStats /\ IsList(call.args[2])) =>
           /\ IsList(call.ret)
           /\ [i \in 1..Len(call.ret.v) |-> Get(call.ret.v[i], "query_stat")]
                  = SupportedStats(SelectSeq(call.args[1].v, WellFormedStat))
    /\ MalformedShape => call.ret.t = "str"

\* what the code does for such input: the exception is swallowed by safe_execute
\* and None is returned, whatever the other records and the rest of the shape
C21_MalformedGivesNone ==
    (MalformedStats \/ MalformedShape) => call.ret = None

\* a well-formed find record before the malformed one, and no pair for it
C21_StatsWitness ==
    /\ MalformedStats
    /\ Len(call.args[1].v) = 2
    /\ call.args[1].v[1] = StatRecord("find", "filter", FilterAB)
    /\ call.args[2] = List(<<SettingRecord("find", "filter", FilterBA, TRUE)>>)
    /\ call.ret = None

C21_ShapeWitness ==
    /\ MalformedShape
    /\ GetOr(call.args[1], "command", None) = Str("find")
    /\ call.ret = None


----------------------------------------------------------------------------
(* C22 *)

\* the calls made on objects of the store
StoreCall == call # NoCall /\ StartsWith(call.fn, "store:")

\* what the function returns, as a value
StoreResult == Deref(call.ret.h, call.ret.r)

\* the argument i of the call, as the value it had before the call
StoreArg(i) == Deref(call.args[1], call.args[i])

\* C22: create_representative_query, transform_to_mongosh, simplify_filter,
\* suggest_index, hash_query_shape, correlate_queries and create_rejection_filter
\* leave every dict and list that existed before the call as it was: what they
\* return is made of new objects, which may refer to the old ones.
C22_InputsUnchanged ==
    StoreCall =>
        LET before == call.args[1]
            after == call.ret.h
        IN  /\ Len(after) >= Len(before)
            /\ \A a \in 1..Len(before) : after[a] = before[a]

\* the functions over the store return what the functions over values return
C22_SameResult ==
    StoreCall =>
        CASE call.fn = "store:simplify_filter" -> StoreResult = simplify_filter(StoreArg(2))
          [] call.fn = "store:suggest_index" ->
                StoreResult = suggest_index(StoreArg(2), StoreArg(3))
          [] call.fn = "store:hash_query_shape" -> StoreResult = hash_query_shape(StoreArg(2))
          [] call.fn = "store:create_representative_query" ->
                StoreResult = create_representative_query(StoreArg(2))
          [] call.fn = "store:transform_to_mongosh" ->
                StoreResult = transform_to_mongosh(StoreArg(2))
          [] call.fn = "store:create_rejection_filter" ->
                StoreResult = create_rejection_filter(StoreArg(2), StoreArg(3))
          [] call.fn = "store:correlate_queries" ->
                StoreResult = correlate_queries(StoreArg(2), StoreArg(3))

\* a representative query was made of a filter with a field: new objects were
\* made and the filter is as it was
C22_Witness ==
    /\ StoreCall
    /\ call.fn = "store:create_representative_query"
    /\ IsDocRef(call.args[1], call.args[2])
    /\ Len(call.args[1][call.args[2].v].v) > 0
    /\ Len(call.ret.h) > Len(call.args[1])
    /\ StoreResult # StoreArg(2)

\* a rejection command was made whose new document refers to the sort of the
\* shape it was given
C22_AliasWitness ==
    /\ StoreCall
    /\ call.fn = "store:create_rejection_filter"
    /\ \E a \in (Len(call.args[1]) + 1)..Len(call.ret.h) :
          /\ call.ret.h[a].t = "doc"
          /\ HasKey(call.ret.h[a], "sort")
          /\ IsRef(Get(call.ret.h[a], "sort"))
          /\ Get(call.ret.h[a], "sort").v <= Len(call.args[1])


----------------------------------------------------------------------------
(* C23 *)

\* the stages array has a first element with a $cursor
HasCursorFirst(o) ==
    /\ HasKey(o, "stages") /\ IsList(Get(o, "stages")) /\ Truthy(Get(o, "stages"))
    /\ IsDoc(Get(o, "stages").v[1]) /\ HasKey(Get(o, "stages").v[1], "$cursor")

\* the place in CaseKeys of the first case that applies to the node o, 0 when
\* none does
FirstCase(o) ==
    IF ~IsDoc(o) \/ ~Truthy(o) THEN 0
    ELSE IF \E i \in 1..3 : HasKey(o, CaseKeys[i])
    THEN CHOOSE i \in 1..3 :
             HasKey(o, CaseKeys[i]) /\ \A j \in 1..(i - 1) : ~HasKey(o, CaseKeys[j])
    ELSE IF HasKey(o, "stage") THEN 4
    ELSE IF HasCursorFirst(o) THEN 5
    ELSE 0

\* the entry of the key k of o, nothing when o has no such key
EntryOfKey(o, k) == IF HasKey(o, k) THEN <<<<k, Get(o, k)>>>> ELSE <<>>

\* the node o with nothing but what its first applicable case reads
FirstCaseOnly(o) ==
    LET c == FirstCase(o) IN
    CASE c \in 1..3 -> Doc(EntryOfKey(o, CaseKeys[c]))
      [] c = 4 -> Doc(EntryOfKey(o, "stage")
                      \o (IF HasKey(o, "inputStage") THEN EntryOfKey(o, "inputStage")
                          ELSE EntryOfKey(o, "inputStages")))
      [] c = 5 -> Doc(<<<<"stages",
                         List(<<Doc(EntryOfKey(Get(o, "stages").v[1], "$cursor"))>>)>>>>)
      [] OTHER -> Doc(<<>>)

\* C23: get_plan_stages gives for a node what it gives for the node cut down to
\* its first applicable case, in the order queryPlanner, winningPlan, queryPlan,
\* stage, stages[0].$cursor: with a wrapper key the result is that of the plan
\* under the first wrapper key (a `stage` beside it is not recorded), with both
\* inputStage and inputStages only inputStage is descended, and of a stages
\* array only the $cursor of the first element is descended.
C23_FirstCaseOnly ==
    (call.fn = "get_plan_stages" /\ IsDoc(call.args[1])) =>
        LET o == call.args[1]
            c == FirstCase(o)
        IN  /\ call.ret = List(get_stages_r(FirstCaseOnly(o), <<>>))
            /\ c \in 1..3 => call.ret = List(get_stages_r(Get(o, CaseKeys[c]), <<>>))
            /\ (c = 4 /\ HasKey(o, "inputStage")) =>
                   call.ret = List(get_stages_r(Get(o, "inputStage"), <<Get(o, "stage")>>))
            /\ c = 5 =>
                   call.ret = List(get_stages_r(Get(Get(o, "stages").v[1], "$cursor"), <<>>))

\* a node with a wrapper key and `stage`: the stages of the plan under the
\* wrapper key are returned, without the node's own stage
C23_Witness ==
    /\ call.fn = "get_plan_stages" /\ IsDoc(call.args[1])
    /\ FirstCase(call.args[1]) \in 1..3
    /\ HasKey(call.args[1], "stage")
    /\ Len(call.ret.v) > 0
    /\ ~InSeq(Get(call.args[1], "stage"), call.ret.v)

\* a stage node with both inputStage and inputStages of which only the stage of
\* inputStage is returned
C23_BothKidsWitness ==
    /\ call.fn = "get_plan_stages" /\ IsDoc(call.args[1])
    /\ FirstCase(call.args[1]) = 4
    /\ HasKey(call.args[1], "inputStage") /\ HasKey(call.args[1], "inputStages")
    /\ Len(Get(call.args[1], "inputStages").v) > 0
    /\ call.ret = List(<<Get(Get(call.args[1], "inputStage"), "stage"),
                         Get(call.args[1], "stage")>>)

\* a stages array with a $cursor in its first two elements: the stages of the
\* first are returned
C23_CursorWitness ==
    /\ call.fn = "get_plan_stages" /\ IsDoc(call.args[1])
    /\ FirstCase(call.args[1]) = 5
    /\ Len(Get(call.args[1], "stages").v) = 2
    /\ HasKey(Get(call.args[1], "stages").v[2], "$cursor")
    /\ InSeq(Str(CaseTag("stages")), call.ret.v)
    /\ ~InSeq(Str(CaseTag("stage")), call.ret.v)


----------------------------------------------------------------------------
(* C24 *)

\* the keys of the document value that start with `$`, in the order they have
OperatorKeys(value) == SelectSeq(Keys(value), LAMBDA k : StartsWith(k, "$"))

\* the tag the claim gives the entry key: value of a filter, Raised when it
\* names none
TagOf(key, value) ==
    IF key = "$and" \/ key = "$or" THEN
        IF IsList(value)
        THEN List([j \in 1..Len(value.v) |-> simplify_filter(value.v[j])])
        ELSE Raised
    ELSE IF IsDoc(value) /\ Len(OperatorKeys(value)) > 0 THEN Str(OperatorKeys(value)[1])
    ELSE IF IsStr(value) /\ StartsWith(value.v, "?") THEN Str("$eq")
    ELSE Raised

\* C24: in the result of simplify_filter for a filter document, a field whose
\* value is a document with a key starting with `$` has the first such key as
\* its tag, a field whose value is a string starting with `?` has `$eq`, and a
\* `$and` / `$or` key has an array as long as the one it had, of the simplified
\* elements.
C24_Tags ==
    (call.fn = "simplify_filter" /\ IsDoc(call.args[1])) =>
        /\ IsDoc(call.ret)
        /\ Keys(call.ret) = Keys(call.args[1])
        /\ \A i \in 1..Len(call.args[1].v) :
              LET key == call.args[1].v[i][1]
                  value == call.args[1].v[i][2]
              IN  /\ TagOf(key, value).t # "raise" => call.ret.v[i][2] = TagOf(key, value)
                  /\ ((key = "$and" \/ key = "$or") /\ IsList(value)) =>
                         /\ IsList(call.ret.v[i][2])
                         /\ Len(call.ret.v[i][2].v) = Len(value.v)

\* {"$lt": .., "$gt": ..} was tagged $lt, the other operator is gone
C24_Witness ==
    /\ call.fn = "simplify_filter" /\ IsDoc(call.args[1])
    /\ \E i \in 1..Len(call.args[1].v) :
          /\ IsDoc(call.args[1].v[i][2])
          /\ OperatorKeys(call.args[1].v[i][2]) = <<"$lt", "$gt">>
          /\ call.ret.v[i][2] = Str("$lt")

\* a $or of three branches was kept with its three simplified branches, a probe
\* among them tagged $eq
C24_BranchWitness ==
    /\ call.fn = "simplify_filter" /\ IsDoc(call.args[1])
    /\ HasKey(call.args[1], "$or")
    /\ Len(Get(call.args[1], "$or").v) = 3
    /\ Len(Get(call.ret, "$or").v) = 3
    /\ Get(call.ret, "$or").v[2] = Doc(<<<<"b", Str("$eq")>>>>)


----------------------------------------------------------------------------
(* C25 *)

\* the keys of the sort are field names
FieldNameSort(sort_doc) ==
    IsDoc(sort_doc) => \A i \in 1..Len(sort_doc.v) : ~StartsWith(sort_doc.v[i][1], "$")

\* C25: for any filter and any sort whose keys are field names, no key of the
\* index suggest_index returns starts with `$`.
C25_NoOperatorKey ==
    (/\ call.fn = "suggest_index"
     /\ FieldNameSort(call.args[2])
     /\ IsDoc(call.ret)) =>
        \A i \in 1..Len(call.ret.v) : ~StartsWith(call.ret.v[i][1], "$")

\* a filter whose only top-level key is $nor: the index has the key $nor
C25_NorKeySuggested ==
    /\ call.fn = "suggest_index"
    /\ IsDoc(call.args[1]) /\ Keys(call.args[1]) = <<"$nor">>
    /\ FieldNameSort(call.args[2])
    /\ IsDoc(call.ret) /\ HasKey(call.ret, "$nor")

\* what does hold: a key of the index that starts with `$` is a key of the
\* filter, at some depth, other than $and and $or
C25_OperatorKeysAreFilterKeys ==
    (/\ call.fn = "suggest_index"
     /\ FieldNameSort(call.args[2])
     /\ IsDoc(call.ret)) =>
        \A i \in 1..Len(call.ret.v) :
            StartsWith(call.ret.v[i][1], "$") =>
                /\ call.ret.v[i][1] \notin {"$and", "$or"}
                /\ \E p \in 1..Len(extract_fields(call.args[1])) :
                      extract_fields(call.args[1])[p][1] = call.ret.v[i][1]


----------------------------------------------------------------------------
(* C26 *)

\* the filter of a find, the pipeline of an aggregate
QueryOfShape(shape) ==
    IF GetOr(shape, "command", None) = Str("find") THEN GetOr(shape, "filter", None)
    ELSE IF GetOr(shape, "command", None) = Str("aggregate")
    THEN GetOr(shape, "pipeline", None)
    ELSE None

\* some record of settings rejects and has the filter or the pipeline of the
\* stats record entry
RejectedShape(entry, settings) ==
    /\ IsList(settings)
    /\ GetOr(StatShape(entry), "command", None) \in {Str("find"), Str("aggregate")}
    /\ \E k \in 1..Len(settings.v) :
          LET setting == settings.v[k]
              shape == Get(setting, "debugQueryShape")
          IN  /\ Get(Get(setting, "settings"), "reject") = Bool(TRUE)
              /\ GetOr(shape, "command", None) = GetOr(StatShape(entry), "command", None)
              /\ QueryOfShape(shape) = QueryOfShape(StatShape(entry))

\* display_query_stat was called for a pair of the correlation before it
Displayed == call.fn = "display_query_stat" /\ prev.fn = "correlate_queries"

\* C26: when a rejecting settings record has the filter or pipeline of a stats
\* record, the record is paired with a rejecting setting and no rejection
\* command is built for it.
C26_NoCommandForRejected ==
    (Displayed /\ RejectedShape(call.args[2], prev.args[2])) =>
        /\ RejectedAlready(call.args[3])
        /\ Get(call.ret, "rejection_filter") = NotShown

\* a rejecting setting has the empty filter of the find that is displayed, the
\* find has no setting and the command is shown
C26_EmptyFilterOffered ==
    /\ Displayed /\ RejectedShape(call.args[2], prev.args[2])
    /\ QueryOfShape(StatShape(call.args[2])) = Doc(<<>>)
    /\ call.args[3] = None
    /\ IsStr(Get(call.ret, "rejection_filter"))

\* a rejecting setting has the filter of the find, with the keys in the same
\* order or another; a later setting of that filter does not reject, the find is
\* paired with the later one and the command is shown
C26_LaterSettingOffered ==
    /\ Displayed
    /\ \E k \in 1..Len(prev.args[2].v) :
          /\ Get(Get(prev.args[2].v[k], "settings"), "reject") = Bool(TRUE)
          /\ Get(StatShape(call.args[2]), "command") = Str("find")
          /\ HasKey(Get(prev.args[2].v[k], "debugQueryShape"), "filter")
          /\ hash_query_shape(Get(Get(prev.args[2].v[k], "debugQueryShape"), "filter"))
                 = hash_query_shape(Get(StatShape(call.args[2]), "filter"))
    /\ Truthy(call.args[3])
    /\ ~RejectedAlready(call.args[3])
    /\ IsStr(Get(call.ret, "rejection_filter"))

\* what does hold: the command is built exactly when the version allows it, the
\* command is find or aggregate, and the setting the record is paired with does
\* not reject
C26_NoCommandWhenPairedWithRejecting ==
    Displayed =>
        (Get(call.ret, "rejection_filter") = NotShown
            <=> ~(/\ call.args[4]
                  /\ GetOr(StatShape(call.args[2]), "command", None)
                         \in {Str("find"), Str("aggregate")}
                  /\ ~(/\ call.args[3] # None
                       /\ Get(Get(call.args[3], "settings"), "reject") = Bool(TRUE))))


----------------------------------------------------------------------------
(* C27 *)

\* the stats records of two pairs have the same command and filters or
\* pipelines of the same structure and types
SameCommandAndShape(p, q) ==
    LET x == StatShape(Get(p, "query_stat"))
        y == StatShape(Get(q, "query_stat"))
    IN  /\ Get(x, "command") = Get(y, "command")
        /\ SameTypeErased(QueryOfShape(x), QueryOfShape(y))

\* in the results r and s, pairs of like stats records have the same setting
SameSettings(r, s) ==
    \A i \in 1..Len(r.v), j \in 1..Len(s.v) :
        SameCommandAndShape(r.v[i], s.v[j]) =>
            Get(r.v[i], "query_setting") = Get(s.v[j], "query_setting")

\* C27: stats records with the same command and the same type-erased filter or
\* pipeline are paired with the same settings record, whatever their namespace,
\* sort, client and metrics are, wherever they are in the list, and whichever of
\* two orders the list is in.
C27_PairedByCommandAndShape ==
    (call.fn = "correlate_queries" /\ IsList(call.ret)) =>
        /\ SameSettings(call.ret, call.ret)
        /\ (/\ prev.fn = "correlate_queries" /\ IsList(prev.ret)
            /\ prev.args[2] = call.args[2]) => SameSettings(call.ret, prev.ret)

\* two finds of one filter that differ in namespace, key order, sort, client and
\* metrics were paired with one setting
C27_Witness ==
    /\ call.fn = "correlate_queries" /\ IsList(call.ret)
    /\ Len(call.ret.v) = 2
    /\ Get(call.ret.v[1], "query_stat") # Get(call.ret.v[2], "query_stat")
    /\ HasKey(StatShape(Get(call.ret.v[1], "query_stat")), "sort")
    /\ ~HasKey(StatShape(Get(call.ret.v[2], "query_stat")), "sort")
    /\ SameCommandAndShape(call.ret.v[1], call.ret.v[2])
    /\ Get(call.ret.v[1], "query_setting") # None
    /\ Get(call.ret.v[1], "query_setting") = Get(call.ret.v[2], "query_setting")

\* the list in the other order gave the pairs in the other order
C27_ReversedWitness ==
    /\ call.fn = "correlate_queries" /\ prev.fn = "correlate_queries"
    /\ IsList(call.ret) /\ Len(call.ret.v) = 2
    /\ call.args[1] # prev.args[1]
    /\ call.ret.v[1] = prev.ret.v[2]
    /\ call.ret.v[2] = prev.ret.v[1]
    /\ Get(call.ret.v[1], "query_setting") # None
    /\ Get(call.ret.v[2], "query_setting") = None


----------------------------------------------------------------------------
(* C28 *)

\* the page has run in the session
SessionRun == call # NoCall /\ call.ret.t = "session"

\* C28: session rate_limit is 0, and the warning is shown, only if the most
\* recent call of get_query_stats returned rate_limit_zero; a Connect whose
\* retrieval of the query stats ends any other way leaves rate_limit other than 0.
C28_ZeroOnlyAfterRateLimitZero ==
    SessionRun =>
        /\ (call.ret.v.rate_limit = Num(0) \/ call.ret.v.warning) =>
               call.ret.v.last_result = "rate_limit_zero"
        /\ (call.fn = "Connect" /\ call.args[1] # "rate_limit_zero") =>
               call.ret.v.rate_limit # Num(0)

\* a Connect that found no query stats left the rate_limit of 0 an earlier
\* Connect had set, and the warning is shown
C28_StaleAfterConnect ==
    /\ SessionRun /\ call.fn = "Connect"
    /\ call.args[1] = "empty_query_stats"
    /\ call.ret.v.last_result = "empty_query_stats"
    /\ call.ret.v.rate_limit = Num(0)
    /\ call.ret.v.warning

\* the rate limit was set, the server has a positive limit, no query stats were
\* found yet: rate_limit is still 0
C28_StaleAfterSetRateLimit ==
    /\ SessionRun /\ call.fn = "Set Rate Limit"
    /\ call.args[1] = "empty_query_stats"
    /\ call.ret.v.client > 0
    /\ call.ret.v.rate_limit = Num(0)

\* what does hold: rate_limit is 0 only if the most recent call of
\* get_query_stats returned an error, and it is None after a call that returned
\* the stats or None
C28_ZeroOnlyAfterAnError ==
    SessionRun =>
        /\ call.ret.v.rate_limit = Num(0) =>
               call.ret.v.last_result \in {"rate_limit_zero", "empty_query_stats"}
        /\ call.args[1] \in {"query_stats", "None"} => call.ret.v.rate_limit = None
        /\ call.args[1] = "rate_limit_zero" => call.ret.v.rate_limit = Num(0)

====
